---- MODULE Spec2Model ----
(***************************************************************************)
(* A model of trafilatura's HTML processing (htmlprocessing.py, utils.py): *)
(* the LXML element tree and the operations the code performs on it, the   *)
(* tree cleaning and pruning passes, the link density filter, the tag      *)
(* converters, the document loader and the text sanitizer.                 *)
(***************************************************************************)
EXTENDS Integers, Sequences, FiniteSets, TLC

VARIABLES
    pc,       \* the control point of the function that is running
    tree,     \* the element tree the function works on
    tree0,    \* the tree as it was passed to the function
    options,  \* the arguments of the call (Extractor options, parameters)
    backup,   \* the deepcopy snapshot taken by the function (tcopy, backup)
    locals,   \* the other local variables of the function
    ret       \* what the function returned

vars == <<pc, tree, tree0, options, backup, locals, ret>>

-----------------------------------------------------------------------------
(* Python str and None.  A str is a sequence of one-character strings; None *)
(* is a value of the same TLA+ type that is no str.                         *)

None == <<"None">>

\* `s or ""`
OrEmpty(s) == IF s = None THEN <<>> ELSE s

\* the truth value of an Optional[str]
Truthy(s) == s # None /\ s # <<>>

NBSP == "nbsp"   \* U+00A0
CTRL == "ctrl"   \* a control character such as U+0000
NLSYM == "nlsym" \* U+2424 SYMBOL FOR NEWLINE

\* str.isspace() of one character
IsSpace(c) == c \in {" ", "\n", "\r", "\t", NBSP}

\* str.isprintable() of one character
IsPrintable(c) == c \notin {"\n", "\r", "\t", NBSP, CTRL}

RECURSIVE Flatten(_)
\* "".join(list of str)
Flatten(ss) == IF ss = <<>> THEN <<>> ELSE Head(ss) \o Flatten(Tail(ss))

RECURSIVE SplitWords(_, _)
\* str.split(): the maximal runs of non-whitespace characters
SplitWords(s, cur) ==
    IF s = <<>> THEN (IF cur = <<>> THEN <<>> ELSE <<cur>>)
    ELSE IF IsSpace(Head(s))
         THEN (IF cur = <<>> THEN <<>> ELSE <<cur>>) \o SplitWords(Tail(s), <<>>)
         ELSE SplitWords(Tail(s), Append(cur, Head(s)))

RECURSIVE JoinWith(_, _)
\* sep.join(list of str)
JoinWith(sep, ss) ==
    IF ss = <<>> THEN <<>>
    ELSE IF Len(ss) = 1 THEN Head(ss)
    ELSE Head(ss) \o sep \o JoinWith(sep, Tail(ss))

\* utils.trim: ' '.join(string.split()).strip(), None for None
trim(string) ==
    IF string = None THEN None ELSE JoinWith(<<" ">>, SplitWords(string, <<>>))

\* re.search(pattern, text) for a pattern that is one literal character
ReSearch(pattern, text) == \E i \in 1..Len(text) : text[i] = pattern

-----------------------------------------------------------------------------
(* The LXML element tree.  A tree is an arena: the elements are 1..n, and   *)
(* tag, text, tail, attrib, kids (the ordered children) and par (the        *)
(* parent, 0 for none) are functions of the element.  An element removed    *)
(* from the tree stays in the arena, detached (as a Python reference to it  *)
(* stays valid).  exc names the exception an operation on the tree raised,  *)
(* "" while none was raised.                                                *)

NoElem == 0

NoAttrib == [a \in {} |-> ""]

Elems(T) == DOMAIN T.tag

getparent(T, e) == T.par[e]

RECURSIVE IndexOf(_, _)
\* position of x in the sequence s (x occurs in s)
IndexOf(s, x) == IF Head(s) = x THEN 1 ELSE 1 + IndexOf(Tail(s), x)

getprevious(T, e) ==
    IF T.par[e] = NoElem THEN NoElem
    ELSE LET sibs == T.kids[T.par[e]]
             i == IndexOf(sibs, e)
         IN  IF i = 1 THEN NoElem ELSE sibs[i - 1]

getnext(T, e) ==
    IF T.par[e] = NoElem THEN NoElem
    ELSE LET sibs == T.kids[T.par[e]]
             i == IndexOf(sibs, e)
         IN  IF i = Len(sibs) THEN NoElem ELSE sibs[i + 1]

RECURSIVE Preorder(_, _)
RECURSIVE PreorderAll(_, _)
\* the elements of the subtree of e in document order, e first
Preorder(T, e) == <<e>> \o PreorderAll(T, T.kids[e])
PreorderAll(T, es) ==
    IF es = <<>> THEN <<>> ELSE Preorder(T, Head(es)) \o PreorderAll(T, Tail(es))

SeqToSet(s) == {s[i] : i \in 1..Len(s)}

\* the descendants of e, e excluded
Descendants(T, e) == SeqToSet(Preorder(T, e)) \ {e}

RECURSIVE Ancestors(_, _)
\* the ancestors of e, e excluded
Ancestors(T, e) ==
    IF T.par[e] = NoElem THEN {} ELSE {T.par[e]} \cup Ancestors(T, T.par[e])

\* e is part of the tree under the root (not detached)
InTree(T, e) == e \in SeqToSet(Preorder(T, T.root))

RECURSIVE itertext(_, _)
RECURSIVE itertextAll(_, _)
\* element.itertext(): the text chunks inside e in document order
itertext(T, e) ==
    (IF T.text[e] = None THEN <<>> ELSE <<T.text[e]>>) \o itertextAll(T, T.kids[e])
itertextAll(T, es) ==
    IF es = <<>> THEN <<>>
    ELSE itertext(T, Head(es))
         \o (IF T.tail[Head(es)] = None THEN <<>> ELSE <<T.tail[Head(es)]>>)
         \o itertextAll(T, Tail(es))

\* element.text_content(): all the text inside e, its own tail excluded
text_content(T, e) == Flatten(itertext(T, e))

RemoveFromSeq(s, x) == SelectSeq(s, LAMBDA y : y # x)

\* parent.remove(element): unlinks the element; its tail goes with it
remove(T, e) ==
    IF T.par[e] = NoElem THEN T
    ELSE [T EXCEPT !.kids[T.par[e]] = RemoveFromSeq(@, e), !.par[e] = NoElem]

\* the function raised the exception x: nothing further happens to the tree
Raise(T, x) == IF T.exc = "" THEN [T EXCEPT !.exc = x] ELSE T

\* lxml.html drop_tree(): asserts that there is a parent; the tail is joined
\* to the previous sibling's tail or to the parent's text, then the element
\* is removed
drop_tree(T, e) ==
    LET prev == getprevious(T, e)
        p == T.par[e]
        T1 == IF ~Truthy(T.tail[e]) THEN T
              ELSE IF prev = NoElem
                   THEN [T EXCEPT !.text[p] = OrEmpty(@) \o T.tail[e]]
                   ELSE [T EXCEPT !.tail[prev] = OrEmpty(@) \o T.tail[e]]
    IN  IF p = NoElem THEN Raise(T, "AssertionError") ELSE remove(T1, e)

\* htmlprocessing.delete_element
delete_element(T, e) == drop_tree(T, e)

RECURSIVE ClimbNext(_, _, _)
\* the element after the subtree of e in the traversal below top, as the
\* iterator finds it from e: the next sibling, else the parent's, and so on
\* up to top; none once the walk leaves through a detached element
ClimbNext(T, top, e) ==
    IF e = top \/ T.par[e] = NoElem THEN NoElem
    ELSE IF getnext(T, e) # NoElem THEN getnext(T, e)
    ELSE ClimbNext(T, top, T.par[e])

\* one step of the depth-first traversal from e
Advance(T, top, e) ==
    IF T.kids[e] # <<>> THEN Head(T.kids[e]) ELSE ClimbNext(T, top, e)

RECURSIVE NextMatch(_, _, _, _)
\* ElementDepthFirstIterator.__next__: the next element after e whose tag is
\* in tags; it is computed when e is handed out, before the loop body runs
NextMatch(T, top, e, tags) ==
    LET m == Advance(T, top, e)
    IN  IF m = NoElem THEN NoElem
        ELSE IF T.tag[m] \in tags THEN m
        ELSE NextMatch(T, top, m, tags)

\* the first element tree.iter(tags) hands out (top itself is included)
FirstMatch(T, top, tags) ==
    IF T.tag[top] \in tags THEN top ELSE NextMatch(T, top, top, tags)

\* tree.find('.//tag') is not None
HasDescendant(T, e, t) == \E d \in Descendants(T, e) : T.tag[d] = t

\* insert the sequence ins in place of x in s
ReplaceInSeq(s, x, ins) ==
    LET i == IndexOf(s, x)
    IN  SubSeq(s, 1, i - 1) \o ins \o SubSeq(s, i + 1, Len(s))

\* text is appended at the place right before e: the previous sibling's tail
\* or the parent's text
AppendBefore(T, e, s) ==
    IF s = None THEN T
    ELSE IF getprevious(T, e) = NoElem
         THEN [T EXCEPT !.text[T.par[e]] = OrEmpty(@) \o s]
         ELSE [T EXCEPT !.tail[getprevious(T, e)] = OrEmpty(@) \o s]

\* lxml strip_tags on one element: its text, children and tail take its place
StripOne(T, e) ==
    LET p == T.par[e]
        ks == T.kids[e]
        T1 == AppendBefore(T, e, T.text[e])
        T2 == IF ks = <<>> THEN AppendBefore(T1, e, T.tail[e])
              ELSE IF T.tail[e] = None THEN T1
              ELSE [T1 EXCEPT !.tail[ks[Len(ks)]] = OrEmpty(@) \o T.tail[e]]
    IN  [T2 EXCEPT !.kids = [@ EXCEPT ![p] = ReplaceInSeq(@, e, ks), ![e] = <<>>],
                   !.par = [x \in DOMAIN @ |->
                              IF x = e THEN NoElem
                              ELSE IF x \in SeqToSet(ks) THEN p ELSE @[x]]]

RECURSIVE strip_tags(_, _)
\* lxml.etree.strip_tags(tree, tags): every element below the root whose tag is
\* in tags is replaced by its content
strip_tags(T, tags) ==
    LET hits == SelectSeq(Preorder(T, T.root),
                          LAMBDA e : e # T.root /\ T.tag[e] \in tags)
    IN  IF hits = <<>> THEN T ELSE strip_tags(StripOne(T, Head(hits)), tags)

-----------------------------------------------------------------------------
(* Building the input trees: every ordered tree shape with a root and a     *)
(* bounded number of further elements, numbered in document order.          *)

\* the elements a new last element can hang under: the last one and its ancestors
RECURSIVE RightPath(_, _)
RightPath(s, e) == IF e = 0 THEN {} ELSE {e} \cup RightPath(s, s[e])

RECURSIVE ShapesOf(_)
\* the parent vectors of the ordered trees with n elements
ShapesOf(n) ==
    IF n = 1 THEN {<<0>>}
    ELSE UNION {{Append(s, p) : p \in RightPath(s, n - 1)} : s \in ShapesOf(n - 1)}

\* the shapes with a root and at most k further elements
ShapesUpTo(k) == UNION {ShapesOf(n) : n \in 1..(k + 1)}

\* the str of n characters c
Rep(c, n) == [i \in 1..n |-> c]

\* the tree of shape s with the given tags, texts, tails and attributes
MkTree(s, tg, tx, tl, at) ==
    [root |-> 1, exc |-> "", tag |-> tg, text |-> tx, tail |-> tl, attrib |-> at,
     par |-> [e \in 1..Len(s) |-> s[e]],
     kids |-> [e \in 1..Len(s) |->
                 SelectSeq([i \in 1..Len(s) |-> i], LAMBDA c : s[c] = e)]]

\* a one-element tree, the value of the tree variables a function does not use
NoTree == MkTree(<<0>>, <<"body">>, <<None>>, <<None>>, <<NoAttrib>>)

-----------------------------------------------------------------------------
(* settings.py: the tag lists tree_cleaning and prune_html start from.      *)

MANUALLY_CLEANED ==
    <<"aside", "embed", "footer", "form", "head", "iframe", "menu", "object",
      "script", "applet", "audio", "canvas", "figure", "map", "picture", "svg",
      "video", "area", "blink", "button", "datalist", "dialog", "frame",
      "frameset", "fieldset", "link", "input", "ins", "label", "legend",
      "marquee", "math", "menuitem", "nav", "noscript", "optgroup", "option",
      "output", "param", "progress", "rp", "rt", "rtc", "select", "source",
      "style", "track", "textarea", "time", "use">>

MANUALLY_STRIPPED ==
    <<"abbr", "acronym", "address", "bdi", "bdo", "big", "cite", "data", "dfn",
      "font", "hgroup", "img", "ins", "mark", "meta", "ruby", "small", "tbody",
      "tfoot", "thead">>

CUT_EMPTY_ELEMS ==
    {"article", "b", "blockquote", "dd", "div", "dt", "em", "h1", "h2", "h3",
     "h4", "h5", "h6", "i", "li", "main", "p", "pre", "q", "section", "span",
     "strong"}

-----------------------------------------------------------------------------
(* htmlprocessing.py: tree_cleaning and prune_html.                         *)

PRESERVE_IMG_CLEANING == {"figure", "picture", "source"}

MANUALLY_CLEANED_CHECK_CONTENT == <<"aside", "footer">>

PRESERVE_ATTR == "preserve-content"

\* 'preserve-content' in element.attrib
IsPreserved(T, e) == PRESERVE_ATTR \in DOMAIN T.attrib[e]

\* element.set(name, value)
SetAttr(T, e, name, value) ==
    [T EXCEPT !.attrib[e] =
        [a \in (DOMAIN @) \cup {name} |-> IF a = name THEN value ELSE @[a]]]

\* check_preserve: some text chunk inside the element matches some pattern
check_preserve(T, e, patterns) ==
    \E i \in 1..Len(itertext(T, e)) :
        \E j \in 1..Len(patterns) : ReSearch(patterns[j], itertext(T, e)[i])

RECURSIVE mark_preserve(_, _)
\* mark_preserve: marks the element and its ancestors, up to the first one
\* that bears the marker already
mark_preserve(T, e) ==
    IF e = NoElem \/ IsPreserved(T, e) THEN T
    ELSE mark_preserve(SetAttr(T, e, PRESERVE_ATTR, <<"t", "r", "u", "e">>), T.par[e])

\* list.remove(x): drops the first occurrence
ListRemove(s, x) ==
    LET i == CHOOSE k \in 1..Len(s) : s[k] = x /\ \A m \in 1..(k - 1) : s[m] # x
    IN  SubSeq(s, 1, i - 1) \o SubSeq(s, i + 1, Len(s))

\* lines 68-84: the cleaning list for the options
CleaningList(opt) ==
    LET l1 == IF ~opt.tables
              THEN MANUALLY_CLEANED \o <<"table", "td", "th", "tr">>
              ELSE MANUALLY_CLEANED
        l2 == IF opt.images
              THEN SelectSeq(l1, LAMBDA t : t \notin PRESERVE_IMG_CLEANING)
              ELSE l1
    IN  IF opt.preserve # <<>>
        THEN SelectSeq(l2, LAMBDA t : t \notin SeqToSet(MANUALLY_CLEANED_CHECK_CONTENT))
        ELSE l2

\* lines 68-80: the stripping list for the options
StrippingList(opt) ==
    IF opt.images THEN ListRemove(MANUALLY_STRIPPED, "img") ELSE MANUALLY_STRIPPED

\* lines 74-75: every figure below the root that contains a table becomes a div
RetagFigures(T) ==
    [T EXCEPT !.tag = [e \in DOMAIN @ |->
        IF e \in Descendants(T, T.root) /\ @[e] = "figure" /\ HasDescendant(T, e, "table")
        THEN "div" ELSE @[e]]]

\* lines 70-87: the tree after the stripping step
AfterStrip(T, opt) ==
    strip_tags(IF opt.tables THEN RetagFigures(T) ELSE T,
               SeqToSet(StrippingList(opt)))

RECURSIVE DeleteIter(_, _, _)
\* for element in tree.getiterator(expression): delete_element(element)
\* cur is the element the iterator hands out next
DeleteIter(T, cur, expression) ==
    IF cur = NoElem \/ T.exc # "" THEN T
    ELSE DeleteIter(delete_element(T, cur),
                    NextMatch(T, T.root, cur, {expression}), expression)

RECURSIVE DeleteLoop(_, _)
DeleteLoop(T, cleaning_list) ==
    IF cleaning_list = <<>> \/ T.exc # "" THEN T
    ELSE DeleteLoop(DeleteIter(T, FirstMatch(T, T.root, {Head(cleaning_list)}),
                               Head(cleaning_list)),
                    Tail(cleaning_list))

\* for expression in cleaning_list: the loop above (an expression that is the
\* tag of no element finds nothing: only the others are evaluated)
DeleteAll(T, cleaning_list) ==
    DeleteLoop(T, SelectSeq(cleaning_list,
                            LAMBDA t : \E e \in DOMAIN T.tag : T.tag[e] = t))

RECURSIVE MarkAll(_, _, _)
\* lines 105-107: for element in tree.iter(): mark it if check_preserve says so
MarkAll(T, es, patterns) ==
    IF es = <<>> THEN T
    ELSE MarkAll(IF check_preserve(T, Head(es), patterns)
                 THEN mark_preserve(T, Head(es)) ELSE T,
                 Tail(es), patterns)

RECURSIVE DeleteUnmarked(_, _)
\* lines 116-119: the children (as listed before the loop) without the marker
\* are deleted
DeleteUnmarked(T, children) ==
    IF children = <<>> \/ T.exc # "" THEN T
    ELSE DeleteUnmarked(IF ~IsPreserved(T, Head(children))
                        THEN delete_element(T, Head(children)) ELSE T,
                        Tail(children))

RECURSIVE CheckContentIter(_, _, _)
\* lines 111-119 for one expression; cur is the element handed out next
CheckContentIter(T, cur, expression) ==
    IF cur = NoElem \/ T.exc # "" THEN T
    ELSE LET nxt == NextMatch(T, T.root, cur, {expression})
             T1 == IF ~IsPreserved(T, cur) THEN delete_element(T, cur)
                   ELSE DeleteUnmarked([T EXCEPT !.tag[cur] = "div"], T.kids[cur])
         IN  CheckContentIter(T1, nxt, expression)

RECURSIVE CheckContentAll(_, _)
\* lines 110-119
CheckContentAll(T, expressions) ==
    IF expressions = <<>> \/ T.exc # "" THEN T
    ELSE CheckContentAll(
             CheckContentIter(T, FirstMatch(T, T.root, {Head(expressions)}),
                              Head(expressions)),
             Tail(expressions))

RECURSIVE DeleteEach(_, _)
\* lines 127-129: the elements found by the XPath are deleted one by one
DeleteEach(T, es) ==
    IF es = <<>> \/ T.exc # "" THEN T
    ELSE DeleteEach(IF T.tag[Head(es)] \in CUT_EMPTY_ELEMS
                    THEN delete_element(T, Head(es)) ELSE T,
                    Tail(es))

\* prune_html: //*[not(node())] are the elements of the document that have no
\* child element and no text (the parser leaves no processing instruction)
prune_html(T) ==
    DeleteEach(T, SelectSeq(Preorder(T, T.root),
                            LAMBDA e : T.kids[e] = <<>> /\ T.text[e] = None))

\* where the function goes on after a step, or that it raised
After(T, label) == IF T.exc # "" THEN "raised" ELSE label

\* lines 68-87: the lists are set up, figures retagged, the stripping list stripped
TC_Strip ==
    /\ pc = "tc_strip"
    /\ tree' = AfterStrip(tree, options)
    /\ pc' = "tc_clean"
    /\ UNCHANGED <<tree0, options, backup, locals, ret>>

\* lines 90-96: focus on recall and a paragraph in the tree: the cleaning list
\* is deleted on the tree, and the copy taken before is used if no paragraph
\* is left
TC_CleanRecall ==
    /\ pc = "tc_clean"
    /\ options.focus = "recall" /\ HasDescendant(tree, tree.root, "p")
    /\ backup' = tree
    /\ LET T1 == DeleteAll(tree, CleaningList(options))
       IN  /\ tree' = IF T1.exc = "" /\ ~HasDescendant(T1, T1.root, "p")
                      THEN tree ELSE T1
           /\ pc' = After(T1, "tc_mark")
    /\ UNCHANGED <<tree0, options, locals, ret>>

\* lines 98-101: the cleaning list is deleted
TC_CleanPlain ==
    /\ pc = "tc_clean"
    /\ ~(options.focus = "recall" /\ HasDescendant(tree, tree.root, "p"))
    /\ tree' = DeleteAll(tree, CleaningList(options))
    /\ pc' = After(tree', "tc_mark")
    /\ UNCHANGED <<tree0, options, backup, locals, ret>>

\* lines 103-107: the marking step
TC_Mark ==
    /\ pc = "tc_mark"
    /\ options.preserve # <<>>
    /\ tree' = MarkAll(tree, Preorder(tree, tree.root), options.preserve)
    /\ pc' = "tc_check"
    /\ UNCHANGED <<tree0, options, backup, locals, ret>>

\* line 103: no preserve pattern, nothing is marked or checked
TC_NoPreserve ==
    /\ pc = "tc_mark"
    /\ options.preserve = <<>>
    /\ pc' = "tc_prune"
    /\ UNCHANGED <<tree, tree0, options, backup, locals, ret>>

\* lines 109-119: aside and footer are deleted, or emptied of what is not marked
TC_CheckContent ==
    /\ pc = "tc_check"
    /\ tree' = CheckContentAll(tree, MANUALLY_CLEANED_CHECK_CONTENT)
    /\ pc' = After(tree', "tc_prune")
    /\ UNCHANGED <<tree0, options, backup, locals, ret>>

\* line 121: return prune_html(tree)
TC_Prune ==
    /\ pc = "tc_prune"
    /\ tree' = prune_html(tree)
    /\ pc' = After(tree', "tc_done")
    /\ ret' = tree'
    /\ UNCHANGED <<tree0, options, backup, locals>>

(* The calls of tree_cleaning that are modelled: a tree of up to MaxNodes   *)
(* elements below a body root, with tags that the lists treat differently,  *)
(* at most MaxTexts texts or tails (one that matches the preserve pattern   *)
(* "k", one that does not), and every combination of the options.           *)

MaxNodes == 3   \* elements below the root

MaxTexts == 1   \* texts and tails in the tree

CleanTags == {"p", "table", "footer", "figure", "img"}

TextValues == {<<"x">>, <<"k">>}

\* the sets of at most k of the slots 1..m
SlotSets(m, k) == {S \in SUBSET (1..m) : Cardinality(S) <= k}

\* the tree of shape s with the tags tg below a body root and the texts f in
\* the slots S: slot e is the text of element e, slot n + e - 1 the tail of
\* element e > 1, of n elements
TextTree(s, tg, S, f) ==
    LET n == Len(s)
        a == [i \in 1..(2 * n - 1) |-> IF i \in S THEN f[i] ELSE None]
    IN  MkTree(s, <<"body">> \o tg,
               [e \in 1..n |-> a[e]],
               [e \in 1..n |-> IF e = 1 THEN None ELSE a[n + e - 1]],
               [e \in 1..n |-> NoAttrib])

CleanOptions ==
    [tables : BOOLEAN, images : BOOLEAN, focus : {"recall", "balanced"},
     preserve : {<<>>, <<"k">>}]

\* the value of locals in a function that is not modelled with any
NoLocals == [none |-> TRUE]

InitClean ==
    /\ pc = "tc_strip"
    /\ \E s \in ShapesUpTo(MaxNodes) : \E tg \in [1..(Len(s) - 1) -> CleanTags] :
         \E S \in SlotSets(2 * Len(s) - 1, MaxTexts) : \E f \in [S -> TextValues] :
            tree = TextTree(s, tg, S, f)
    /\ tree0 = tree
    /\ options \in CleanOptions
    /\ backup = NoTree
    /\ locals = NoLocals
    /\ ret = NoTree

NextClean ==
    \/ TC_Strip
    \/ TC_CleanRecall
    \/ TC_CleanPlain
    \/ TC_Mark
    \/ TC_NoPreserve
    \/ TC_CheckContent
    \/ TC_Prune

SpecClean == InitClean /\ [][NextClean]_vars

-----------------------------------------------------------------------------
(* Claims about tree_cleaning.                                              *)

\* the elements of the input whose text matches a preserve pattern
MatchingElems == {e \in Elems(tree0) : check_preserve(tree0, e, options.preserve)}

\* C1: with a non-empty preserve list, every element of the input tree whose
\* text matches a preserve pattern, and every ancestor of it up to the root,
\* is still in the tree that tree_cleaning returns.
C1_PreservedSurvive ==
    (pc = "tc_done" /\ options.preserve # <<>>) =>
        \A e \in MatchingElems :
            \A a \in {e} \cup Ancestors(tree0, e) : InTree(ret, a)

\* C9: with focus "recall", a tree that has a paragraph after the stripping
\* step still has a paragraph when tree_cleaning returns it.
C9_RecallKeepsParagraph ==
    (pc = "tc_done" /\ options.focus = "recall"
       /\ HasDescendant(AfterStrip(tree0, options), tree0.root, "p")) =>
        HasDescendant(ret, ret.root, "p")

(* The calls of tree_cleaning on documents that may bear the attribute      *)
(* preserve-content already: a tree of up to MaxMarkNodes elements below a  *)
(* body root, at most one text or tail, the attribute on no element or on   *)
(* one element below the root.                                              *)

MaxMarkNodes == 2   \* elements below the root

MarkTags == {"p", "footer"}

InitCleanMarked ==
    /\ pc = "tc_strip"
    /\ \E s \in ShapesUpTo(MaxMarkNodes) : \E tg \in [1..(Len(s) - 1) -> MarkTags] :
         \E S \in SlotSets(2 * Len(s) - 1, 1) : \E f \in [S -> TextValues] :
            \E m \in {0} \cup (2..Len(s)) :
                tree = IF m = 0 THEN TextTree(s, tg, S, f)
                       ELSE SetAttr(TextTree(s, tg, S, f), m, PRESERVE_ATTR, <<"x">>)
    /\ tree0 = tree
    /\ options \in CleanOptions
    /\ backup = NoTree
    /\ locals = NoLocals
    /\ ret = NoTree

SpecCleanMarked == InitCleanMarked /\ [][NextClean]_vars

\* C18: after the marking step of tree_cleaning the marked elements are closed
\* under parent, whatever the input tree: the parent of every element that
\* bears preserve-content bears it too; and this is still so after the step
\* that deletes the unmarked children of footer and aside.
C18_MarkedClosedUnderParent ==
    (pc \in {"tc_check", "tc_prune"} /\ options.preserve # <<>>) =>
        \A e \in Elems(tree) :
            (InTree(tree, e) /\ IsPreserved(tree, e) /\ getparent(tree, e) # NoElem) =>
                IsPreserved(tree, getparent(tree, e))

-----------------------------------------------------------------------------
(* htmlprocessing.py: prune_unwanted_nodes.                                 *)

Seven == 7   \* return tree if new_len > old_len/7 else backup

\* expression(tree) for an XPath expression .//t: the elements below the root
\* with tag t, in document order
Select(T, t) ==
    SelectSeq(Preorder(T, T.root), LAMBDA e : e # T.root /\ T.tag[e] = t)

\* lines 142-148: the tail of the subtree is appended to the tail of prev,
\* which is the previous sibling or else the parent
KeepTail(T, e) ==
    LET prev0 == getprevious(T, e)
        prev == IF prev0 = NoElem THEN getparent(T, e) ELSE prev0
    IN  IF T.tail[e] # None /\ prev # NoElem
        THEN [T EXCEPT !.tail[prev] = OrEmpty(@) \o <<" ">> \o T.tail[e]]
        ELSE T

\* lines 150-151: the node is removed unless it bears the marker
RemoveUnlessPreserved(T, e) ==
    IF IsPreserved(T, e) THEN T
    ELSE IF getparent(T, e) = NoElem THEN Raise(T, "AttributeError")
    ELSE remove(T, e)

\* lines 141-151: the loop body for one matched subtree
PruneSubtree(T, e) == RemoveUnlessPreserved(KeepTail(T, e), e)

\* line 156 with >= for >: the pruned tree is kept at one-seventh too
KeepsPrunedFromOneSeventh(new_len, old_len) == Seven * new_len >= old_len

\* line 156: new_len > old_len/7
KeepsPruned(new_len, old_len) == Seven * new_len > old_len

\* len(tree.text_content())
TextLen(T) == Len(text_content(T, T.root))

\* lines 135-137: the length and the backup are taken
PU_Begin ==
    /\ pc = "pu_begin"
    /\ locals' = [old_len |-> IF options.with_backup THEN TextLen(tree) ELSE 0,
                  todo |-> options.nodelist, matches |-> <<>>, returned |-> "",
                  subtree |-> NoElem]
    /\ backup' = IF options.with_backup THEN tree ELSE backup
    /\ pc' = "pu_loop"
    /\ UNCHANGED <<tree, tree0, options, ret>>

\* lines 139-140: the next expression is evaluated on the tree
PU_Expression ==
    /\ pc = "pu_loop"
    /\ locals.matches = <<>> /\ locals.todo # <<>>
    /\ locals' = [locals EXCEPT !.matches = Select(tree, Head(locals.todo)),
                                !.todo = Tail(@)]
    /\ UNCHANGED <<pc, tree, tree0, options, backup, ret>>

\* lines 141-151: the next matched subtree is handled
PU_Subtree ==
    /\ pc = "pu_loop"
    /\ locals.matches # <<>>
    /\ tree' = PruneSubtree(tree, Head(locals.matches))
    /\ locals' = [locals EXCEPT !.matches = Tail(@), !.subtree = Head(locals.matches)]
    /\ pc' = After(tree', "pu_loop")
    /\ UNCHANGED <<tree0, options, backup, ret>>

\* lines 153-157: the pruned tree or the backup is returned
PU_Return ==
    /\ pc = "pu_loop"
    /\ locals.matches = <<>> /\ locals.todo = <<>>
    /\ LET keep == ~options.with_backup \/ KeepsPruned(TextLen(tree), locals.old_len)
       IN  /\ ret' = IF keep THEN tree ELSE backup
           /\ locals' = [locals EXCEPT !.returned = IF keep THEN "tree" ELSE "backup"]
    /\ pc' = "pu_done"
    /\ UNCHANGED <<tree, tree0, options, backup>>

(* The calls of prune_unwanted_nodes that are modelled: a tree of up to     *)
(* MaxPruneNodes elements below the root, at most MaxPruneTexts texts or    *)
(* tails of one or six characters, the marker on no element or on one       *)
(* element and its ancestors (as tree_cleaning sets it), and one or two     *)
(* expressions.                                                             *)

MaxPruneNodes == 2   \* elements below the root

MaxPruneTexts == 2   \* texts and tails in the tree

PruneTags == {"div", "nav"}

PruneTextValues == {<<"x">>, Rep("x", Seven - 1)}

InitPrune ==
    /\ pc = "pu_begin"
    /\ \E s \in ShapesUpTo(MaxPruneNodes) : \E tg \in [1..(Len(s) - 1) -> PruneTags] :
         \E S \in SlotSets(2 * Len(s) - 1, MaxPruneTexts) :
            \E f \in [S -> PruneTextValues] : \E m \in 0..Len(s) :
                tree = IF m = 0 THEN TextTree(s, tg, S, f)
                       ELSE mark_preserve(TextTree(s, tg, S, f), m)
    /\ tree0 = tree
    /\ options \in [nodelist : {<<"nav">>, <<"nav", "div">>}, with_backup : BOOLEAN]
    /\ backup = NoTree
    /\ locals = NoLocals
    /\ ret = NoTree

NextPrune ==
    \/ PU_Begin
    \/ PU_Expression
    \/ PU_Subtree
    \/ PU_Return

SpecPrune == InitPrune /\ [][NextPrune]_vars

-----------------------------------------------------------------------------
(* Claims about prune_unwanted_nodes.                                       *)

\* new is old with the tail tl merged in at its end (with or without the
\* space the code puts between them)
MergedInto(new, old, tl) ==
    new = OrEmpty(old) \o tl \/ new = OrEmpty(old) \o <<" ">> \o tl

\* C3: when a matched node with tail text is removed, the tail text is merged
\* into the tail of its previous sibling, or into the text of its parent when
\* it has no previous sibling.
C3_TailKeepsPosition ==
    [][(pc = "pu_loop" /\ locals.matches # <<>>) =>
        LET e == Head(locals.matches)
            prev == getprevious(tree, e)
            parent == getparent(tree, e)
        IN  (tree.tail[e] # None /\ ~IsPreserved(tree, e) /\ parent # NoElem) =>
                /\ ~InTree(tree', e)
                /\ IF prev # NoElem
                   THEN MergedInto(tree'.tail[prev], tree.tail[prev], tree.tail[e])
                   ELSE MergedInto(tree'.text[parent], tree.text[parent], tree.tail[e])
      ]_vars

\* C16: when an expression of prune_unwanted_nodes matches a node that bears
\* the marker, the tree is left as it is: the node stays, and the texts and
\* tails of the node, of its previous sibling and of its parent are the same
\* after as before.
C16_PreservedMatchLeavesTree ==
    [][(pc = "pu_loop" /\ locals.matches # <<>>
            /\ IsPreserved(tree, Head(locals.matches))) =>
        tree' = tree
      ]_vars

\* C8 as claimed: with with_backup, the backup is returned exactly when the
\* text length after pruning is strictly less than one-seventh of the length
\* before (7 * new_len < old_len).
C8_BackupBelowOneSeventh ==
    (pc = "pu_done" /\ options.with_backup) =>
        (locals.returned = "backup" <=> Seven * TextLen(tree) < TextLen(tree0))

\* C8 as amended: with with_backup, the snapshot taken before pruning is
\* returned exactly when 7 * new_len <= old_len (so also at exactly
\* one-seventh, and when old_len is 0), the pruned tree in every other case.
C8_BackupUpToOneSeventh ==
    (pc = "pu_done" /\ options.with_backup) =>
        /\ locals.returned = "backup" <=> Seven * TextLen(tree) <= TextLen(tree0)
        /\ locals.returned = "backup" => ret = tree0
        /\ locals.returned = "tree" => ret = tree

\* C8, the case at exactly one-seventh: something was pruned, the length fell
\* to one-seventh of a non-zero length, and the backup was returned
C8_Witness ==
    /\ pc = "pu_done" /\ options.with_backup
    /\ tree # tree0
    /\ TextLen(tree0) > 0 /\ Seven * TextLen(tree) = TextLen(tree0)
    /\ locals.returned = "backup" /\ ret = tree0

-----------------------------------------------------------------------------
(* htmlprocessing.py: the link density filter.                              *)

\* element.findall('.//ref'): the ref elements below e, in document order
FindRefs(T, e) ==
    SelectSeq(Preorder(T, e), LAMBDA d : d # e /\ T.tag[d] = "ref")

RECURSIVE SumLen(_)
\* sum(len(text) for text in mylist)
SumLen(ss) == IF ss = <<>> THEN 0 ELSE Len(Head(ss)) + SumLen(Tail(ss))

\* collect_link_info: (lengths, len(mylist), shortelems, mylist)
collect_link_info(T, links_xpath, favor_precision) ==
    LET texts == [i \in 1..Len(links_xpath) |-> trim(text_content(T, links_xpath[i]))]
        mylist == SelectSeq(texts, LAMBDA t : Truthy(t))
        threshold == IF favor_precision THEN 50 ELSE 10
    IN  [lengths |-> SumLen(mylist),
         elemnum |-> Len(mylist),
         shortelems |-> Len(SelectSeq(mylist, LAMBDA t : Len(t) < threshold)),
         mylist |-> mylist]

\* lines 180-198: the length limit for the tag and the position
LimitLen(T, e, favor_precision) ==
    IF T.tag[e] = "p"
    THEN (IF ~favor_precision
          THEN (IF getnext(T, e) = NoElem THEN 60 ELSE 30)
          ELSE 200)
    ELSE (IF getnext(T, e) = NoElem THEN 300 ELSE 100)

\* line 206 with >= for >
DenseFromThreshold(linklen, elemlen, elemnum, shortelems) ==
    \/ 10 * linklen >= 8 * elemlen
    \/ (elemnum > 1 /\ 10 * shortelems >= 8 * elemnum)

\* line 206: linklen > threshold*elemlen or
\* (elemnum > 1 and shortelems/elemnum > 0.8), with threshold 0.8
Dense(linklen, elemlen, elemnum, shortelems) ==
    \/ 10 * linklen > 8 * elemlen
    \/ (elemnum > 1 /\ 10 * shortelems > 8 * elemnum)

\* link_density_test: (result, mylist)
link_density_test(T, e, text, favor_precision) ==
    LET links_xpath == FindRefs(T, e)
        info == collect_link_info(T, links_xpath, favor_precision)
    IN  IF links_xpath # <<>> /\ Len(text) < LimitLen(T, e, favor_precision)
        THEN (IF info.elemnum = 0 THEN [result |-> TRUE, mylist |-> info.mylist]
              ELSE [result |-> Dense(info.lengths, Len(text), info.elemnum,
                                     info.shortelems),
                    mylist |-> info.mylist])
        ELSE [result |-> FALSE, mylist |-> <<>>]

\* the scan without the skip of marked elements (lines 237-238 left out)
ScheduledWithoutSkip(T, elem, backtracking, favor_precision) ==
    LET elemtext == trim(text_content(T, elem))
        test == link_density_test(T, elem, elemtext, favor_precision)
        threshold == IF favor_precision THEN 200 ELSE 100
    IN  IF test.result THEN <<elem>>
        ELSE IF backtracking /\ test.mylist # <<>>
                /\ 0 < Len(elemtext) /\ Len(elemtext) < threshold
                /\ Len(T.kids[elem]) >= 3
             THEN T.kids[elem]
        ELSE <<>>

\* lines 237-245: what the scan adds to deletions for one element of the tag
Scheduled(T, elem, backtracking, favor_precision) ==
    LET elemtext == trim(text_content(T, elem))
        test == link_density_test(T, elem, elemtext, favor_precision)
        threshold == IF favor_precision THEN 200 ELSE 100
    IN  IF IsPreserved(T, elem) THEN <<>>
        ELSE IF test.result THEN <<elem>>
        ELSE IF backtracking /\ test.mylist # <<>>
                /\ 0 < Len(elemtext) /\ Len(elemtext) < threshold
                /\ Len(T.kids[elem]) >= 3
             THEN T.kids[elem]
        ELSE <<>>

RECURSIVE ScheduleAll(_, _, _, _)
\* lines 236-245: the scan over subtree.iter(tagname)
ScheduleAll(T, es, backtracking, favor_precision) ==
    IF es = <<>> THEN <<>>
    ELSE Scheduled(T, Head(es), backtracking, favor_precision)
         \o ScheduleAll(T, Tail(es), backtracking, favor_precision)

RECURSIVE Dedup(_)
\* dict.fromkeys(deletions): the first occurrence of each element, in order
Dedup(s) ==
    IF s = <<>> THEN <<>>
    ELSE <<Head(s)>> \o Dedup(SelectSeq(Tail(s), LAMBDA x : x # Head(s)))

RECURSIVE RemoveEach(_, _)
\* lines 250-253: each scheduled element that has a parent is removed from it
RemoveEach(T, es) ==
    IF es = <<>> THEN T ELSE RemoveEach(remove(T, Head(es)), Tail(es))

\* lines 236-245: deletions
Deletions(T, tagname, backtracking, favor_precision) ==
    ScheduleAll(T, SelectSeq(Preorder(T, T.root), LAMBDA e : T.tag[e] = tagname),
                backtracking, favor_precision)

\* delete_by_link_density
delete_by_link_density(T, tagname, backtracking, favor_precision) ==
    RemoveEach(T, Dedup(Deletions(T, tagname, backtracking, favor_precision)))

\* tree_cleaning, lines 105-107, on the tree that is handed to the filter
LD_Mark ==
    /\ pc = "ld_mark"
    /\ tree' = MarkAll(tree, Preorder(tree, tree.root), options.preserve)
    /\ pc' = "ld_call"
    /\ UNCHANGED <<tree0, options, backup, locals, ret>>

\* delete_by_link_density(tree, tagname, backtracking, favor_precision)
LD_Delete ==
    /\ pc = "ld_call"
    /\ \E tagname \in {"div", "p"}, backtracking \in BOOLEAN, favor_precision \in BOOLEAN :
         /\ locals' = [tagname |-> tagname, backtracking |-> backtracking,
                       favor_precision |-> favor_precision]
         /\ tree' = delete_by_link_density(tree, tagname, backtracking, favor_precision)
    /\ backup' = tree
    /\ ret' = tree'
    /\ pc' = "ld_done"
    /\ UNCHANGED <<tree0, options>>

(* The calls that are modelled: a div with up to MaxLinkNodes p and ref     *)
(* elements below it and at most MaxLinkTexts one-character texts or tails, *)
(* "k" matching the preserve pattern.                                       *)

MaxLinkNodes == 3   \* elements below the root

MaxLinkTexts == 2   \* texts and tails in the tree

LinkTags == {"p", "ref"}

\* the tree with the tag of the root replaced
WithRootTag(T, t) == [T EXCEPT !.tag[T.root] = t]

InitLink ==
    /\ pc = "ld_mark"
    /\ \E s \in ShapesUpTo(MaxLinkNodes) : \E tg \in [1..(Len(s) - 1) -> LinkTags] :
         \E S \in SlotSets(2 * Len(s) - 1, MaxLinkTexts) : \E f \in [S -> TextValues] :
            tree = WithRootTag(TextTree(s, tg, S, f), "div")
    /\ tree0 = tree
    /\ options = [preserve |-> <<"k">>]
    /\ backup = NoTree
    /\ locals = NoLocals
    /\ ret = NoTree

NextLink == LD_Mark \/ LD_Delete

SpecLink == InitLink /\ [][NextLink]_vars

-----------------------------------------------------------------------------
(* Claims about delete_by_link_density.                                     *)

\* the elements the call took out of the tree they were in
Detached == {e \in Elems(tree) : InTree(backup, e) /\ ~InTree(tree, e)}

\* the elements the call removed from their parent
Removed == {e \in Elems(tree) : backup.par[e] # NoElem /\ tree.par[e] = NoElem}

C4_TailStaysInTree ==
    (pc = "ld_done" /\ Removed # {}
       /\ \A e \in Removed : text_content(backup, e) = <<>>) =>
        TextLen(tree) = TextLen(backup)

-----------------------------------------------------------------------------
(* htmlprocessing.py: convert_tags and convert_to_html.                     *)

\* the tag names of the model and the str each one is
TAG_NAMES ==
    << <<"a", <<"a">>>>,
       <<"em", <<"e", "m">>>>,
       <<"i", <<"i">>>>,
       <<"b", <<"b">>>>,
       <<"strong", <<"s", "t", "r", "o", "n", "g">>>>,
       <<"u", <<"u">>>>,
       <<"kbd", <<"k", "b", "d">>>>,
       <<"samp", <<"s", "a", "m", "p">>>>,
       <<"tt", <<"t", "t">>>>,
       <<"var", <<"v", "a", "r">>>>,
       <<"sub", <<"s", "u", "b">>>>,
       <<"sup", <<"s", "u", "p">>>>,
       <<"dl", <<"d", "l">>>>,
       <<"ol", <<"o", "l">>>>,
       <<"ul", <<"u", "l">>>>,
       <<"dd", <<"d", "d">>>>,
       <<"dt", <<"d", "t">>>>,
       <<"li", <<"l", "i">>>>,
       <<"h1", <<"h", "1">>>>,
       <<"h2", <<"h", "2">>>>,
       <<"h3", <<"h", "3">>>>,
       <<"h4", <<"h", "4">>>>,
       <<"h5", <<"h", "5">>>>,
       <<"h6", <<"h", "6">>>>,
       <<"br", <<"b", "r">>>>,
       <<"hr", <<"h", "r">>>>,
       <<"blockquote", <<"b", "l", "o", "c", "k", "q", "u", "o", "t", "e">>>>,
       <<"pre", <<"p", "r", "e">>>>,
       <<"q", <<"q">>>>,
       <<"del", <<"d", "e", "l">>>>,
       <<"s", <<"s">>>>,
       <<"strike", <<"s", "t", "r", "i", "k", "e">>>>,
       <<"details", <<"d", "e", "t", "a", "i", "l", "s">>>>,
       <<"summary", <<"s", "u", "m", "m", "a", "r", "y">>>>,
       <<"img", <<"i", "m", "g">>>>,
       <<"list", <<"l", "i", "s", "t">>>>,
       <<"item", <<"i", "t", "e", "m">>>>,
       <<"code", <<"c", "o", "d", "e">>>>,
       <<"quote", <<"q", "u", "o", "t", "e">>>>,
       <<"head", <<"h", "e", "a", "d">>>>,
       <<"lb", <<"l", "b">>>>,
       <<"graphic", <<"g", "r", "a", "p", "h", "i", "c">>>>,
       <<"ref", <<"r", "e", "f">>>>,
       <<"hi", <<"h", "i">>>>,
       <<"div", <<"d", "i", "v">>>>,
       <<"span", <<"s", "p", "a", "n">>>>,
       <<"p", <<"p">>>>,
       <<"table", <<"t", "a", "b", "l", "e">>>>,
       <<"body", <<"b", "o", "d", "y">>>>,
       <<"html", <<"h", "t", "m", "l">>>> >>

\* the str of a tag name
StrOf(t) ==
    LET i == CHOOSE k \in 1..Len(TAG_NAMES) : TAG_NAMES[k][1] = t IN TAG_NAMES[i][2]

\* the tag name that a str spells
TagOf(s) ==
    IF \E k \in 1..Len(TAG_NAMES) : TAG_NAMES[k][2] = s
    THEN LET i == CHOOSE k \in 1..Len(TAG_NAMES) : TAG_NAMES[k][2] = s IN TAG_NAMES[i][1]
    ELSE "?"

DIGITS == <<"0", "1", "2", "3", "4", "5", "6", "7", "8", "9">>

IsDigit(c) == \E d \in 1..Len(DIGITS) : DIGITS[d] = c

DigitValue(c) == (CHOOSE d \in 1..Len(DIGITS) : DIGITS[d] = c) - 1

\* int(s) accepts s when it is a non-empty run of decimal digits
IsInt(s) == Len(s) > 0 /\ \A i \in 1..Len(s) : IsDigit(s[i])

RECURSIVE IntOf(_)
\* int(s) for a run of decimal digits
IntOf(s) ==
    IF s = <<>> THEN 0
    ELSE 10 * IntOf(SubSeq(s, 1, Len(s) - 1)) + DigitValue(s[Len(s)])

RECURSIVE StrOfInt(_)
\* str(n) for n >= 0
StrOfInt(n) ==
    IF n < 10 THEN <<DIGITS[n + 1]>>
    ELSE StrOfInt(n \div 10) \o <<DIGITS[(n % 10) + 1]>>

\* lines 22-34, in the order of the dict: (tag, rend)
REND_TAG_MAPPING ==
    << <<"em", <<"#", "i">>>>, <<"i", <<"#", "i">>>>, <<"b", <<"#", "b">>>>,
       <<"strong", <<"#", "b">>>>, <<"u", <<"#", "u">>>>, <<"kbd", <<"#", "t">>>>,
       <<"samp", <<"#", "t">>>>, <<"tt", <<"#", "t">>>>, <<"var", <<"#", "t">>>>,
       <<"sub", <<"#", "s", "u", "b">>>>, <<"sup", <<"#", "s", "u", "p">>>> >>

\* REND_TAG_MAPPING.keys()
RendTags == {REND_TAG_MAPPING[i][1] : i \in 1..Len(REND_TAG_MAPPING)}

\* REND_TAG_MAPPING[tag]
RendOf(t) ==
    LET i == CHOOSE k \in 1..Len(REND_TAG_MAPPING) : REND_TAG_MAPPING[k][1] = t
    IN  REND_TAG_MAPPING[i][2]

\* line 36: {v: k for k, v in REND_TAG_MAPPING.items()}; a later item with the
\* same rend takes the place of an earlier one
HasHtmlTag(rend) == \E k \in 1..Len(REND_TAG_MAPPING) : REND_TAG_MAPPING[k][2] = rend

HTML_TAG_MAPPING(rend) ==
    LET i == CHOOSE k \in 1..Len(REND_TAG_MAPPING) :
                 /\ REND_TAG_MAPPING[k][2] = rend
                 /\ \A m \in (k + 1)..Len(REND_TAG_MAPPING) : REND_TAG_MAPPING[m][2] # rend
    IN  REND_TAG_MAPPING[i][1]

\* elem.get(name)
GetAttr(T, e, name) ==
    IF name \in DOMAIN T.attrib[e] THEN T.attrib[e][name] ELSE None

\* elem.attrib.clear()
ClearAttr(T, e) == [T EXCEPT !.attrib[e] = NoAttrib]

\* elem.attrib.pop(name), the name being there
PopAttr(T, e, name) ==
    [T EXCEPT !.attrib[e] = [a \in (DOMAIN @) \ {name} |-> @[a]]]

\* elem.tag = t
SetTag(T, e, t) == [T EXCEPT !.tag[e] = t]

\* top.iter(*tags): the elements of the subtree with one of the tags, top
\* included, in document order
Iter(T, top, tags) == SelectSeq(Preorder(T, top), LAMBDA e : T.tag[e] \in tags)

\* Element(tag, attrib): a new element without parent, text, tail or children;
\* it is the last element of the result
NewElement(T, t, at) ==
    [T EXCEPT !.tag = Append(@, t), !.text = Append(@, None),
              !.tail = Append(@, None), !.attrib = Append(@, at),
              !.kids = Append(@, <<>>), !.par = Append(@, NoElem)]

\* parent.append(child), the child having no parent
AppendChild(T, parent, child) ==
    [T EXCEPT !.kids[parent] = Append(@, child), !.par[child] = parent]

\* parent.replace(old, new): new takes the place of old, which leaves the
\* tree with its tail
ReplaceChild(T, parent, old, new) ==
    [T EXCEPT !.kids[parent] = ReplaceInSeq(@, old, <<new>>),
              !.par[new] = parent, !.par[old] = NoElem]

RECURSIVE ListItems(_, _, _)
\* lines 319-326: the loop over elem.iter("dd", "dt", "li") with its counter
ListItems(T, subs, i) ==
    IF subs = <<>> THEN T
    ELSE LET subelem == Head(subs)
             t == T.tag[subelem]
             T1 == IF t \in {"dd", "dt"}
                   THEN SetAttr(T, subelem, "rend", StrOf(t) \o <<"-">> \o StrOfInt(i))
                   ELSE T
         IN  ListItems(SetTag(T1, subelem, "item"), Tail(subs),
                       IF t = "dd" THEN i + 1 ELSE i)

convert_lists(T, elem) ==
    LET T1 == SetTag(SetAttr(T, elem, "rend", StrOf(T.tag[elem])), elem, "list")
    IN  ListItems(T1, Iter(T1, elem, {"dd", "dt", "li"}), 1)

\* starts-with(@class, 'hljs'), an absent attribute being the empty string
StartsWith(s, prefix) ==
    s # None /\ Len(s) >= Len(prefix) /\ SubSeq(s, 1, Len(prefix)) = prefix

RECURSIVE ClearAll(_, _)
ClearAll(T, es) == IF es = <<>> THEN T ELSE ClearAll(ClearAttr(T, Head(es)), Tail(es))

convert_quotes(T, elem) ==
    LET children == T.kids[elem]
        code_elems == SelectSeq(Preorder(T, elem), LAMBDA d :
                          /\ d # elem /\ T.tag[d] = "span"
                          /\ StartsWith(GetAttr(T, d, "class"), <<"h", "l", "j", "s">>))
        code_flag == /\ T.tag[elem] = "pre"
                     /\ \/ (Len(children) = 1 /\ T.tag[children[1]] = "span")
                        \/ code_elems # <<>>
        T1 == IF T.tag[elem] = "pre" THEN ClearAll(T, code_elems) ELSE T
    IN  SetTag(T1, elem, IF code_flag THEN "code" ELSE "quote")

convert_headings(T, elem) ==
    SetTag(SetAttr(ClearAttr(T, elem), elem, "rend", StrOf(T.tag[elem])), elem, "head")

convert_line_breaks(T, elem) == SetTag(T, elem, "lb")

convert_deletions(T, elem) ==
    SetAttr(SetTag(T, elem, "del"), elem, "rend",
            <<"o", "v", "e", "r", "s", "t", "r", "i", "k", "e">>)

RECURSIVE RetagAll(_, _, _)
\* for elem in es: elem.tag = t
RetagAll(T, es, t) ==
    IF es = <<>> THEN T ELSE RetagAll(SetTag(T, Head(es), t), Tail(es), t)

convert_details(T, elem) ==
    LET T1 == SetTag(T, elem, "div")
    IN  RetagAll(T1, Iter(T1, elem, {"summary"}), "head")

\* CONVERSIONS.keys()
ConversionTags ==
    {"dl", "ol", "ul", "h1", "h2", "h3", "h4", "h5", "h6", "br", "hr",
     "blockquote", "pre", "q", "del", "s", "strike", "details"}

\* CONVERSIONS[elem.tag](elem)
CONVERSIONS(T, elem) ==
    LET t == T.tag[elem]
    IN  IF t \in {"dl", "ol", "ul"} THEN convert_lists(T, elem)
        ELSE IF t \in {"h1", "h2", "h3", "h4", "h5", "h6"} THEN convert_headings(T, elem)
        ELSE IF t \in {"br", "hr"} THEN convert_line_breaks(T, elem)
        ELSE IF t \in {"blockquote", "pre", "q"} THEN convert_quotes(T, elem)
        ELSE IF t \in {"del", "s", "strike"} THEN convert_deletions(T, elem)
        ELSE convert_details(T, elem)

\* reorder_header_elements, the body of the loop for one ref
ReorderOne(T, ref) ==
    LET heads == SelectSeq(T.kids[ref], LAMBDA c : T.tag[c] = "head")
    IN  IF heads = <<>> THEN T
        ELSE LET head == heads[1]
                 new_ref == Len(T.tag) + 1
                 new_head == Len(T.tag) + 2
                 T1 == [NewElement(T, T.tag[ref], T.attrib[ref])
                           EXCEPT !.text[new_ref] = T.text[head]]
                 T2 == AppendChild(NewElement(T1, T.tag[head], T.attrib[head]),
                                   new_head, new_ref)
                 parent == T.par[ref]
             IN  IF parent = NoElem THEN Raise(T2, "AttributeError")
                 ELSE ReplaceChild(T2, parent, ref, new_head)

RECURSIVE ReorderAll(_, _)
ReorderAll(T, refs) ==
    IF refs = <<>> \/ T.exc # "" THEN T
    ELSE ReorderAll(ReorderOne(T, Head(refs)), Tail(refs))

\* reorder_header_elements: the loop over tree.xpath("//ref[head]")
reorder_header_elements(T) ==
    ReorderAll(T, SelectSeq(Preorder(T, T.root), LAMBDA e :
                      T.tag[e] = "ref" /\ \E c \in SeqToSet(T.kids[e]) : T.tag[c] = "head"))

\* lines 403-407: './/div//a|.//ul//a', with '|.//table//a' for options.tables
LinkXPath(T, tables) ==
    LET containers == {"div", "ul"} \cup (IF tables THEN {"table"} ELSE {})
    IN  SelectSeq(Preorder(T, T.root), LAMBDA e :
            /\ T.tag[e] = "a"
            /\ \E anc \in Ancestors(T, e) \ {T.root} : T.tag[anc] \in containers)

\* lines 415-423, url being None: the body of the loop for one element
ConvertLink(T, elem) ==
    LET target == GetAttr(T, elem, "href")
        T1 == ClearAttr(SetTag(T, elem, "ref"), elem)
    IN  IF Truthy(target) THEN SetAttr(T1, elem, "target", target) ELSE T1

RECURSIVE ConvertLinks(_, _)
ConvertLinks(T, es) ==
    IF es = <<>> THEN T ELSE ConvertLinks(ConvertLink(T, Head(es)), Tail(es))

\* lines 427-429: the body of the loop for one element
ConvertFormatting(T, elem) ==
    SetTag(SetAttr(ClearAttr(T, elem), elem, "rend", RendOf(T.tag[elem])), elem, "hi")

RECURSIVE ConvertFormattings(_, _)
ConvertFormattings(T, es) ==
    IF es = <<>> THEN T
    ELSE ConvertFormattings(ConvertFormatting(T, Head(es)), Tail(es))

RECURSIVE ConvertEach(_, _)
\* lines 434-435: no conversion gives an element a tag of CONVERSIONS or takes
\* one away from an element the loop has yet to reach
ConvertEach(T, es) ==
    IF es = <<>> THEN T ELSE ConvertEach(CONVERSIONS(T, Head(es)), Tail(es))

\* HTML_CONVERSIONS.keys()
HtmlConversionTags == {"list", "item", "code", "quote", "head", "lb", "img", "ref", "hi"}

\* lines 444-454, HTML_CONVERSIONS[elem.tag] applied where it is callable: the
\* new tag, or the exception that the lookup raises
HTML_CONVERSIONS(T, elem) ==
    LET t == T.tag[elem]
        rend == GetAttr(T, elem, "rend")
        rest == IF rend = None \/ rend = <<>> THEN <<>> ELSE Tail(rend)
    IN  CASE t = "list" -> [exc |-> "", tag |-> "ul"]
          [] t = "item" -> [exc |-> "", tag |-> "li"]
          [] t = "code" -> [exc |-> "", tag |-> "pre"]
          [] t = "quote" -> [exc |-> "", tag |-> "blockquote"]
          [] t = "head" ->
                IF rend = None THEN [exc |-> "TypeError", tag |-> t]
                ELSE IF ~IsInt(rest) THEN [exc |-> "ValueError", tag |-> t]
                ELSE [exc |-> "", tag |-> TagOf(<<"h">> \o StrOfInt(IntOf(rest)))]
          [] t = "lb" -> [exc |-> "", tag |-> "br"]
          [] t = "img" -> [exc |-> "", tag |-> "graphic"]
          [] t = "ref" -> [exc |-> "", tag |-> "a"]
          [] t = "hi" ->
                IF rend = None \/ ~HasHtmlTag(rend) THEN [exc |-> "KeyError", tag |-> t]
                ELSE [exc |-> "", tag |-> HTML_TAG_MAPPING(rend)]

\* lines 459-470: the body of the loop for one element; set() raises
\* TypeError for a value of None
ConvertToHtmlOne(T, elem) ==
    LET c == HTML_CONVERSIONS(T, elem)
        T1 == SetTag(T, elem, c.tag)
        target == GetAttr(T, elem, "target")
    IN  IF c.exc # "" THEN Raise(T, c.exc)
        ELSE IF c.tag = "a"
             THEN (IF target = None THEN Raise(T1, "TypeError")
                   ELSE PopAttr(SetAttr(T1, elem, "href", target), elem, "target"))
        ELSE ClearAttr(T1, elem)

RECURSIVE ConvertToHtmlEach(_, _)
\* lines 459-470: no new tag is one of HTML_CONVERSIONS, so the loop reaches
\* the elements that had such a tag at the start, until an exception ends it
ConvertToHtmlEach(T, es) ==
    IF es = <<>> \/ T.exc # "" THEN T
    ELSE ConvertToHtmlEach(ConvertToHtmlOne(T, Head(es)), Tail(es))

\* convert_to_html: the returned root is the last element
convert_to_html(T) ==
    LET T1 == ConvertToHtmlEach(T, Iter(T, T.root, HtmlConversionTags))
        T2 == NewElement(SetTag(T1, T1.root, "body"), "html", NoAttrib)
        root == Len(T2.tag)
    IN  IF T1.exc # "" THEN T1
        ELSE [AppendChild(T2, root, T1.root) EXCEPT !.root = root]

\* convert_tags, lines 402-423
CT_Links ==
    /\ pc = "ct_links"
    /\ tree' = IF ~options.links
               THEN strip_tags(RetagAll(tree, LinkXPath(tree, options.tables), "ref"), {"a"})
               ELSE ConvertLinks(tree, Iter(tree, tree.root, {"a", "ref"}))
    /\ pc' = "ct_formatting"
    /\ UNCHANGED <<tree0, options, backup, locals, ret>>

\* convert_tags, lines 425-431
CT_Formatting ==
    /\ pc = "ct_formatting"
    /\ tree' = IF options.formatting
               THEN ConvertFormattings(tree, Iter(tree, tree.root, RendTags))
               ELSE strip_tags(tree, RendTags)
    /\ pc' = "ct_conversions"
    /\ UNCHANGED <<tree0, options, backup, locals, ret>>

\* convert_tags, lines 434-435
CT_Conversions ==
    /\ pc = "ct_conversions"
    /\ tree' = ConvertEach(tree, Iter(tree, tree.root, ConversionTags))
    /\ pc' = "ct_images"
    /\ UNCHANGED <<tree0, options, backup, locals, ret>>

\* convert_tags, lines 437-441
CT_Images ==
    /\ pc = "ct_images"
    /\ tree' = reorder_header_elements(
                   IF options.images
                   THEN RetagAll(tree, Iter(tree, tree.root, {"img"}), "graphic")
                   ELSE tree)
    /\ ret' = tree'
    /\ pc' = "ch_convert"
    /\ UNCHANGED <<tree0, options, backup, locals>>

\* convert_to_html(tree)
CH_Convert ==
    /\ pc = "ch_convert"
    /\ tree' = convert_to_html(tree)
    /\ backup' = tree
    /\ ret' = IF tree'.exc = "" THEN tree' ELSE NoTree
    /\ pc' = "ch_done"
    /\ UNCHANGED <<tree0, options, locals>>

(* The calls that are modelled: convert_tags and then convert_to_html on a  *)
(* body with up to MaxConvNodes elements of the HTML tags below it, every   *)
(* setting of the options; and convert_to_html alone on a body with up to   *)
(* MaxConvNodes elements of the converted tags.                             *)

MaxConvNodes == 2   \* elements below the root

\* the tags that convert_tags knows
RecognizedTags ==
    RendTags \cup ConversionTags \cup {"a", "dd", "dt", "li", "summary", "img"}

HtmlTags == RecognizedTags \cup {"div", "span", "table"}

ConvertedTags == HtmlConversionTags \cup {"graphic", "p"}

\* the attributes an element of the input has: a link with or without a href,
\* a span with or without a highlighting class
HtmlAttribs(t) ==
    {NoAttrib}
    \cup (IF t = "a" THEN {[a \in {"href"} |-> <<"u">>]} ELSE {})
    \cup (IF t = "span" THEN {[a \in {"class"} |-> <<"h", "l", "j", "s">>]} ELSE {})

\* the attributes an element of a converted tree has
ConvertedAttribs(t) ==
    {NoAttrib, [a \in {"rend"} |-> <<"h", "2">>], [a \in {"rend"} |-> <<"#", "i">>]}
    \cup (IF t = "ref" THEN {[a \in {"target"} |-> <<"u">>]} ELSE {})

\* the tree of shape s with the tags and attributes below a body root
AttribTree(s, tg, at) ==
    MkTree(s, <<"body">> \o tg, [e \in 1..Len(s) |-> None], [e \in 1..Len(s) |-> None],
           <<NoAttrib>> \o at)

InitConv ==
    /\ \E s \in ShapesUpTo(MaxConvNodes) :
         \/ /\ pc = "ct_links"
            /\ \E tg \in [1..(Len(s) - 1) -> HtmlTags] :
                 \E at \in [1..(Len(s) - 1) -> UNION {HtmlAttribs(t) : t \in HtmlTags}] :
                    /\ \A i \in 1..(Len(s) - 1) : at[i] \in HtmlAttribs(tg[i])
                    /\ tree = AttribTree(s, tg, at)
            /\ options \in [links : BOOLEAN, formatting : BOOLEAN,
                            images : BOOLEAN, tables : BOOLEAN]
         \/ /\ pc = "ch_convert"
            /\ \E tg \in [1..(Len(s) - 1) -> ConvertedTags] :
                 \E at \in [1..(Len(s) - 1) -> UNION {ConvertedAttribs(t) : t \in ConvertedTags}] :
                    /\ \A i \in 1..(Len(s) - 1) : at[i] \in ConvertedAttribs(tg[i])
                    /\ tree = AttribTree(s, tg, at)
            /\ options = [links |-> TRUE, formatting |-> TRUE,
                          images |-> TRUE, tables |-> TRUE]
    /\ tree0 = tree
    /\ backup = NoTree
    /\ locals = [entry |-> pc]
    /\ ret = NoTree

NextConv == CT_Links \/ CT_Formatting \/ CT_Conversions \/ CT_Images \/ CH_Convert

SpecConv == InitConv /\ [][NextConv]_vars

-----------------------------------------------------------------------------
(* Claims about convert_tags and convert_to_html.                           *)

\* the tags of the converted format
CanonicalTags == {"list", "item", "code", "quote", "head", "lb", "graphic", "ref", "hi"}

\* C5: for a document of recognized tags only, with links, formatting and
\* images enabled, convert_tags followed by convert_to_html (when it returns)
\* gives every element below the root its original tag name back.
C5_RoundTripRestoresTags ==
    (/\ pc = "ch_done" /\ locals.entry = "ct_links" /\ tree.exc = ""
     /\ options.links /\ options.formatting /\ options.images
     /\ \A e \in Elems(tree0) \ {tree0.root} : tree0.tag[e] \in RecognizedTags) =>
        \A e \in Elems(tree0) \ {tree0.root} : tree.tag[e] = tree0.tag[e]

\* C6: the tree that convert_to_html returns has no element with a tag of the
\* converted format, and its root is html with the converted tree as body.
C6_NoCanonicalTagLeft ==
    (pc = "ch_done" /\ tree.exc = "") =>
        /\ \A e \in Elems(tree) : InTree(tree, e) => tree.tag[e] \notin CanonicalTags
        /\ tree.tag[tree.root] = "html"
        /\ tree.kids[tree.root] = <<backup.root>>
        /\ tree.tag[backup.root] = "body"

\* C17: convert_to_html completes without an exception on every tree that
\* convert_tags returns, whatever the options; a head that comes from a
\* summary inside details and a ref that comes from a link without href are
\* among these trees.
C17_ConvertedTreeConverts ==
    (pc = "ch_done" /\ locals.entry = "ct_links" /\ backup.exc = "") =>
        tree.exc = ""

-----------------------------------------------------------------------------
(* utils.py: handle_compressed_file, is_utf8, detect_encoding, decode_file. *)
(* A bytes object is a sequence of bytes; a byte below 0x80 is written as   *)
(* its character, the others by their two hexadecimal digits.               *)

\* first byte of a two-byte UTF-8 sequence
LEAD_BYTES == {"c3"}

\* bytes 0x80..0xBF
CONTINUATION_BYTES == {"a9", "8b"}

\* the byte at position i continues the two-byte sequence begun at i - 1
Follows(data, i) ==
    i > 1 /\ data[i] \in CONTINUATION_BYTES /\ data[i - 1] \in LEAD_BYTES

\* the byte at position i begins a two-byte sequence completed at i + 1
Begins(data, i) ==
    data[i] \in LEAD_BYTES /\ i < Len(data) /\ data[i + 1] \in CONTINUATION_BYTES

\* data.decode('utf-8') does not raise UnicodeDecodeError
ValidUtf8(data) ==
    \A i \in 1..Len(data) :
        /\ data[i] \in LEAD_BYTES => Begins(data, i)
        /\ data[i] \in CONTINUATION_BYTES => Follows(data, i)

\* the character of the sequence at position i, U+FFFD for a byte that
\* belongs to no sequence
Utf8Char(data, i) ==
    IF Begins(data, i)
    THEN (IF data[i + 1] = "a9" THEN "U+00E9" ELSE "U+00CB")
    ELSE IF data[i] \in LEAD_BYTES \cup CONTINUATION_BYTES THEN "U+FFFD"
    ELSE data[i]

\* str(data, encoding='utf-8', errors='replace'); data.decode('utf-8') when
\* the bytes are valid
Utf8Decode(data) ==
    LET idx == SelectSeq([i \in 1..Len(data) |-> i], LAMBDA i : ~Follows(data, i))
    IN  [k \in 1..Len(idx) |-> Utf8Char(data, idx[k])]

\* data.decode('cp1252'): one character for every byte
Cp1252Decode(data) ==
    [i \in 1..Len(data) |->
        CASE data[i] = "c3" -> "U+00C3"
          [] data[i] = "a9" -> "U+00A9"
          [] data[i] = "8b" -> "U+2039"
          [] OTHER -> data[i]]

\* data.decode(encoding) raises neither LookupError nor UnicodeDecodeError
CanDecode(data, encoding) ==
    \/ encoding \in {"utf-8", "utf_8"} /\ ValidUtf8(data)
    \/ encoding = "cp1252"

\* data.decode(encoding)
Decode(data, encoding) ==
    IF encoding = "cp1252" THEN Cp1252Decode(data) ELSE Utf8Decode(data)

GZIP_MAGIC == <<"1f", "8b", "08">>

\* handle_compressed_file; gunzip is what gzip.decompress does with the
\* bytes: [ok, data]. The bytes are no zstandard, brotli or zlib stream.
handle_compressed_file(filecontent, gunzip) ==
    IF Len(filecontent) >= 3 /\ SubSeq(filecontent, 1, 3) = GZIP_MAGIC /\ gunzip.ok
    THEN gunzip.data
    ELSE filecontent

\* line 135: the default of chunk_size
ChunkSize == 1024

\* data[start:end]
Slice(data, start, end) ==
    SubSeq(data, start + 1, IF end < Len(data) THEN end ELSE Len(data))

\* is_utf8 with the default sample_rate: int(total_chunks * 0.1) is
\* total_chunks \div 10
is_utf8(data, chunk_size) ==
    LET chunks == Len(data) \div chunk_size
        total_chunks == IF chunks = 0 THEN 1 ELSE chunks
        tenth == total_chunks \div 10
        sample_chunks == IF tenth > 1 THEN tenth ELSE 1
    IN  \A i \in 0..(sample_chunks - 1) :
            LET start == (Len(data) \div sample_chunks) * i
            IN  ValidUtf8(Slice(data, start, start + chunk_size))

UNICODE_ALIASES == {"utf-8", "utf_8"}

\* detect_encoding; detected is the list of encodings that from_bytes finds
detect_encoding(bytesobject, detected) ==
    IF is_utf8(bytesobject, ChunkSize) THEN <<"utf-8">>
    ELSE IF \E k \in 1..Len(detected) : detected[k] = "utf-8" THEN <<"utf-8">>
    ELSE SelectSeq(detected, LAMBDA g : g \notin UNICODE_ALIASES)

\* lines 192-201 of decode_file
DecodeGuessed(filecontent, encodings) ==
    LET good == {k \in 1..Len(encodings) : CanDecode(filecontent, encodings[k])}
        first == CHOOSE k \in good : \A j \in good : k <= j
        htmltext == IF good = {} THEN None ELSE Decode(filecontent, encodings[first])
    IN  IF Truthy(htmltext) THEN htmltext ELSE Utf8Decode(filecontent)

\* decode_file of a bytes object
decode_file(filecontent, gunzip, detected) ==
    LET data == handle_compressed_file(filecontent, gunzip)
    IN  DecodeGuessed(data, detect_encoding(data, detected))

\* what from_bytes can find
Detections ==
    {<<>>, <<"utf_8">>, <<"cp1252">>, <<"viscii", "cp1252">>, <<"cp1252", "utf-8">>}

\* line 190
DF_Decompress ==
    /\ pc = "df_begin"
    /\ locals' = [locals EXCEPT
                    !.data = handle_compressed_file(options.filecontent, options.gunzip)]
    /\ pc' = "df_detect"
    /\ UNCHANGED <<tree, tree0, options, backup, ret>>

\* line 192, detect_encoding: from_bytes is called when is_utf8 fails
DF_Detect ==
    /\ pc = "df_detect"
    /\ IF is_utf8(locals.data, ChunkSize)
       THEN locals' = [locals EXCEPT !.encodings = detect_encoding(locals.data, <<>>)]
       ELSE \E detected \in Detections :
               locals' = [locals EXCEPT
                            !.encodings = detect_encoding(locals.data, detected),
                            !.consulted = TRUE]
    /\ pc' = "df_decode"
    /\ UNCHANGED <<tree, tree0, options, backup, ret>>

\* lines 192-201
DF_Decode ==
    /\ pc = "df_decode"
    /\ locals' = [locals EXCEPT !.htmltext = DecodeGuessed(locals.data, locals.encodings)]
    /\ pc' = "df_done"
    /\ UNCHANGED <<tree, tree0, options, backup, ret>>

(* The calls that are modelled: 0..3 or MaxFill-30..MaxFill bytes "a", then  *)
(* nothing, a two-byte character, or a lone byte of one, then nothing or    *)
(* "a"; as they are, or compressed in a gzip member that is sound or not.   *)

MaxFill == 1026   \* bytes before the character

FillLengths == (0..3) \cup ((MaxFill - 30)..MaxFill)

BytePieces == {<<>>, <<"c3", "a9">>, <<"c3">>, <<"a9">>}

InitDecode ==
    /\ pc = "df_begin"
    /\ \E fill \in FillLengths, piece \in BytePieces, end \in {<<>>, <<"a">>} :
         LET data == Rep("a", fill) \o piece \o end
         IN  \/ options = [filecontent |-> data,
                           gunzip |-> [ok |-> FALSE, data |-> <<>>]]
             \/ \E ok \in BOOLEAN :
                  options = [filecontent |-> GZIP_MAGIC \o <<"zz">>,
                             gunzip |-> [ok |-> ok, data |-> IF ok THEN data ELSE <<>>]]
    /\ tree = NoTree
    /\ tree0 = NoTree
    /\ backup = NoTree
    /\ locals = [data |-> <<>>, encodings |-> <<>>, consulted |-> FALSE, htmltext |-> None]
    /\ ret = NoTree

NextDecode == DF_Decompress \/ DF_Detect \/ DF_Decode

SpecDecode == InitDecode /\ [][NextDecode]_vars

-----------------------------------------------------------------------------
(* Claims about decode_file.                                                *)

\* C14 as stated: for bytes that are valid UTF-8 after decompression,
\* detect_encoding returns exactly ['utf-8'] without calling from_bytes, and
\* decode_file returns the utf-8 decoding of the bytes.
C14_ValidUtf8SeenBySample ==
    (pc = "df_done" /\ ValidUtf8(locals.data)) =>
        /\ locals.encodings = <<"utf-8">>
        /\ ~locals.consulted
        /\ locals.htmltext = Utf8Decode(locals.data)

-----------------------------------------------------------------------------
(* utils.py: load_html.                                                     *)

ASCII_UPPERCASE ==
    <<"A", "B", "C", "D", "E", "F", "G", "H", "I", "J", "K", "L", "M",
      "N", "O", "P", "Q", "R", "S", "T", "U", "V", "W", "X", "Y", "Z">>

ASCII_LOWERCASE ==
    <<"a", "b", "c", "d", "e", "f", "g", "h", "i", "j", "k", "l", "m",
      "n", "o", "p", "q", "r", "s", "t", "u", "v", "w", "x", "y", "z">>

\* str.lower(), character by character
Lower(s) ==
    [i \in 1..Len(s) |->
        IF \E k \in 1..Len(ASCII_UPPERCASE) : ASCII_UPPERCASE[k] = s[i]
        THEN ASCII_LOWERCASE[CHOOSE k \in 1..Len(ASCII_UPPERCASE) : ASCII_UPPERCASE[k] = s[i]]
        ELSE s[i]]

\* sub in s
Contains(s, sub) ==
    \E i \in 1..(Len(s) - Len(sub) + 1) : \A k \in 1..Len(sub) : s[i + k - 1] = sub[k]

\* s[:n]
Take(s, n) == SubSeq(s, 1, IF Len(s) < n THEN Len(s) ELSE n)

\* line 253: the number of characters of the beginning
Fifty == 50

\* is_dubious_html with the outcome turned around
has_html_marker(beginning) == Contains(beginning, <<"h", "t", "m", "l">>)

\* is_dubious_html
is_dubious_html(beginning) == ~Contains(beginning, <<"h", "t", "m", "l">>)

\* the value None of the variable tree
NoneTree ==
    [root |-> NoElem, exc |-> "", tag |-> <<>>, text |-> <<>>, tail |-> <<>>,
     attrib |-> <<>>, kids |-> <<>>, par |-> <<>>]

\* tree is None
IsNone(T) == T.root = NoElem

\* len(tree): the number of children of the root
TreeLen(T) == Len(T.kids[T.root])

\* a tree that the parser returns: a root with n children
ParsedTree(n) ==
    MkTree(<<0>> \o Rep(1, n), <<"html">> \o Rep("p", n), Rep(None, n + 1),
           Rep(None, n + 1), Rep(NoAttrib, n + 1))

MaxChildren == 2   \* children of the root of a parsed tree

\* what a call of the parser on the bytes can give: None after an exception,
\* or a tree
BytesParses == {NoneTree} \cup {ParsedTree(n) : n \in 0..MaxChildren}

\* lines 239-240: a tree is returned as it is
LH_Element ==
    /\ pc = "lh_begin"
    /\ options.kind = "HtmlElement"
    /\ ret' = tree
    /\ pc' = "lh_done"
    /\ UNCHANGED <<tree, tree0, options, backup, locals>>

\* line 251: decode_file of a str returns it as it is; the bytes here are
\* no compressed file
Decoded(kind, htmlobject, detected) ==
    IF kind = "str" THEN htmlobject
    ELSE decode_file(htmlobject, [ok |-> FALSE, data |-> <<>>], detected)

\* what from_bytes can find for the input: it is called for bytes that
\* is_utf8 rejects
DetectionsOf(kind, htmlobject) ==
    IF kind = "bytes" /\ ~is_utf8(htmlobject, ChunkSize) THEN Detections ELSE {<<>>}

\* lines 249-251, for a str or bytes. locals.parses lists the calls of the
\* parser, locals.first and locals.first_tree are the outcome of the first one.
LH_Decode ==
    /\ pc = "lh_begin"
    /\ options.kind \in {"str", "bytes"}
    /\ \E detected \in DetectionsOf(options.kind, options.htmlobject) :
         locals' = [htmlobject |-> Decoded(options.kind, options.htmlobject, detected),
                    beginning |-> <<>>, check_flag |-> FALSE,
                    fallback_parse |-> FALSE, parsed |-> NoneTree,
                    parses |-> <<>>, first |-> "", first_tree |-> NoneTree]
    /\ tree' = NoneTree
    /\ pc' = "lh_check"
    /\ UNCHANGED <<tree0, options, backup, ret>>

\* lines 253-258; the repaired string goes to the parser only
LH_Begin ==
    /\ pc = "lh_check"
    /\ LET beginning == Lower(Take(locals.htmlobject, Fifty))
       IN  locals' = [locals EXCEPT !.beginning = beginning,
                                    !.check_flag = is_dubious_html(beginning)]
    /\ pc' = "lh_first"
    /\ UNCHANGED <<tree, tree0, options, backup, ret>>

\* lines 258-260 and 265-266: the parser returns a tree or raises an
\* exception other than ValueError
LH_FirstPass ==
    /\ pc = "lh_first"
    /\ \/ /\ \E n \in 0..MaxChildren : tree' = ParsedTree(n)
          /\ locals' = [locals EXCEPT !.parses = Append(@, "text"),
                                      !.first = "tree", !.first_tree = tree']
       \/ /\ tree' = NoneTree
          /\ locals' = [locals EXCEPT !.parses = Append(@, "text"),
                                      !.first = "Exception"]
    /\ pc' = "lh_second"
    /\ UNCHANGED <<tree0, options, backup, ret>>

\* lines 261-264: the parser raises ValueError, the bytes are parsed
LH_Fallback ==
    /\ pc = "lh_first"
    /\ tree' \in BytesParses
    /\ locals' = [locals EXCEPT !.fallback_parse = TRUE,
                                !.parses = @ \o <<"text", "bytes">>,
                                !.first = "ValueError"]
    /\ pc' = "lh_second"
    /\ UNCHANGED <<tree0, options, backup, ret>>

\* line 268 without the test of fallback_parse
SecondPassAfterFallback(T, fallback_parse) == IsNone(T) \/ TreeLen(T) < 1

\* line 268
SecondPass(T, fallback_parse) == (IsNone(T) \/ TreeLen(T) < 1) /\ ~fallback_parse

\* lines 268-269
LH_SecondPass ==
    /\ pc = "lh_second"
    /\ IF SecondPass(tree, locals.fallback_parse)
       THEN /\ tree' \in BytesParses
            /\ locals' = [locals EXCEPT !.parses = Append(@, "bytes")]
       ELSE /\ tree' = tree
            /\ UNCHANGED locals
    /\ pc' = "lh_reject"
    /\ UNCHANGED <<tree0, options, backup, ret>>

\* lines 272-277
LH_Return ==
    /\ pc = "lh_reject"
    /\ tree' = IF ~IsNone(tree) /\ locals.check_flag /\ TreeLen(tree) < 2
               THEN NoneTree ELSE tree
    /\ locals' = [locals EXCEPT !.parsed = tree]
    /\ ret' = tree'
    /\ pc' = "lh_done"
    /\ UNCHANGED <<tree0, options, backup>>

(* The calls that are modelled: a tree; a str of 0..MaxPad characters "x",  *)
(* then one of the words html, HTML, htm, then nothing or "y"; bytes of the *)
(* same kind that end with nothing, a two-byte character or half of one.    *)

MaxPad == 48   \* characters before the word

LoadWords == {<<"h", "t", "m", "l">>, <<"H", "T", "M", "L">>, <<"h", "t", "m">>}

\* the arguments of the calls: [tree, options]
LoadCalls ==
    {[tree |-> ParsedTree(n), options |-> [kind |-> "HtmlElement", htmlobject |-> <<>>]] :
        n \in 0..MaxChildren}
    \cup
    {[tree |-> NoneTree,
      options |-> [kind |-> "str", htmlobject |-> Rep("x", c[1]) \o c[2] \o c[3]]] :
        c \in (0..MaxPad) \X LoadWords \X {<<>>, <<"y">>}}
    \cup
    {[tree |-> NoneTree,
      options |-> [kind |-> "bytes", htmlobject |-> Rep("x", c[1]) \o c[2] \o c[3]]] :
        c \in (0..MaxPad) \X LoadWords \X {<<>>, <<"c3", "a9">>, <<"c3">>}}

InitLoad ==
    /\ pc = "lh_begin"
    /\ \E call \in LoadCalls :
         /\ tree = call.tree
         /\ options = call.options
    /\ tree0 = tree
    /\ backup = NoTree
    /\ locals = NoLocals
    /\ ret = NoneTree

NextLoad ==
    LH_Element \/ LH_Decode \/ LH_Begin \/ LH_FirstPass \/ LH_Fallback \/ LH_SecondPass \/ LH_Return

SpecLoad == InitLoad /\ [][NextLoad]_vars

(* The runs of load_html, from before the call to the return: a call, once *)
(* made, goes on until it returns.                                          *)

\* the caller passes the argument
LH_Call ==
    /\ pc = "lh_call"
    /\ \E call \in LoadCalls :
         /\ tree' = call.tree
         /\ tree0' = call.tree
         /\ options' = call.options
    /\ pc' = "lh_begin"
    /\ UNCHANGED <<backup, locals, ret>>

InitLoadRun ==
    /\ pc = "lh_call"
    /\ tree = NoneTree
    /\ tree0 = NoneTree
    /\ options = [kind |-> "", htmlobject |-> <<>>]
    /\ backup = NoTree
    /\ locals = NoLocals
    /\ ret = NoneTree

NextLoadRun == LH_Call \/ NextLoad

SpecLoadRun == InitLoadRun /\ [][NextLoadRun]_vars /\ WF_vars(NextLoadRun)

-----------------------------------------------------------------------------
(* Claims about load_html.                                                  *)

\* the first 50 lowercased characters of the input contain "html"
MarkerInInput == Contains(Lower(Take(options.htmlobject, 50)), <<"h", "t", "m", "l">>)

\* the parse gave a tree, and it has fewer than 2 children
FewChildren == ~IsNone(locals.parsed) /\ TreeLen(locals.parsed) < 2

ParsedInOrder ==
    (pc = "lh_done" /\ options.kind # "HtmlElement") =>
        IF locals.first # "tree" \/ TreeLen(locals.first_tree) < 1
        THEN locals.parses = <<"text", "bytes">>
        ELSE locals.parses = <<"text">>

\* the parser is never called on the bytes before the text, nor twice on either
ParsesSoFar ==
    (pc \notin {"lh_call", "lh_begin"} /\ options.kind # "HtmlElement") =>
        locals.parses \in {<<>>, <<"text">>, <<"text", "bytes">>}

\* C13: in every run of load_html on bytes or text, the text is parsed first
\* and exactly once, the bytes are parsed at most once and exactly when the
\* parse of the text failed or gave a tree with no children, and the run ends
\* by returning a tree or None.
C13_TextThenBytesOnce ==
    /\ [](ParsedInOrder /\ ParsesSoFar)
    /\ <>(pc = "lh_done" /\ ret \in BytesParses)

\* a call on bytes where the parse of the text gave a tree without children
\* and the bytes were parsed after it
C13_Witness ==
    /\ pc = "lh_done"
    /\ options.kind = "bytes"
    /\ locals.first = "tree"
    /\ TreeLen(locals.first_tree) = 0
    /\ locals.parses = <<"text", "bytes">>


-----------------------------------------------------------------------------
(* utils.py: sanitize, line_processing, remove_control_characters.          *)

RECURSIVE Replace(_, _, _)
\* str.replace(old, new): the occurrences from the left, without overlap
Replace(s, old, new) ==
    IF Len(s) < Len(old) THEN s
    ELSE IF SubSeq(s, 1, Len(old)) = old
         THEN new \o Replace(SubSeq(s, Len(old) + 1, Len(s)), old, new)
         ELSE <<Head(s)>> \o Replace(Tail(s), old, new)

\* return_printables_and_spaces for every character, joined
remove_control_characters(string) ==
    SelectSeq(string, LAMBDA c : IsPrintable(c) \/ IsSpace(c))

RECURSIVE SplitLines(_, _, _)
\* str.splitlines(): the lines end at "\n", "\r" or "\r\n"; open says that
\* the current line has begun
SplitLines(s, cur, open) ==
    IF s = <<>> THEN (IF open THEN <<cur>> ELSE <<>>)
    ELSE IF Head(s) = "\r" /\ Len(s) >= 2 /\ s[2] = "\n"
         THEN <<cur>> \o SplitLines(SubSeq(s, 3, Len(s)), <<>>, FALSE)
    ELSE IF Head(s) \in {"\n", "\r"}
         THEN <<cur>> \o SplitLines(Tail(s), <<>>, FALSE)
    ELSE SplitLines(Tail(s), Append(cur, Head(s)), TRUE)

\* line 69, LINES_TRIMMING.sub(" ", s): a newline becomes a space unless one
\* of the characters of the class [p{P}>] stands before it
LINES_TRIMMING(s) ==
    [i \in 1..Len(s) |->
        IF s[i] = "\n" /\ (i = 1 \/ s[i - 1] \notin {"p", "{", "P", "}", ">"})
        THEN " " ELSE s[i]]

\* all(map(str.isspace, s))
AllSpace(s) == \A i \in 1..Len(s) : IsSpace(s[i])

line_processing(line, preserve_space, trailing_space) ==
    LET replaced == Replace(Replace(Replace(line,
                        <<"&", "#", "1", "3", ";">>, <<"\r">>),
                        <<"&", "#", "1", "0", ";">>, <<"\n">>),
                        <<"&", "n", "b", "s", "p", ";">>, <<NBSP>>)
        new_line == remove_control_characters(replaced)
        trimmed == trim(LINES_TRIMMING(new_line))
        space_before == IF IsSpace(line[1]) THEN <<" ">> ELSE <<>>
        space_after == IF IsSpace(line[Len(line)]) THEN <<" ">> ELSE <<>>
    IN  IF preserve_space THEN new_line
        ELSE IF AllSpace(trimmed) THEN None
        ELSE IF trailing_space THEN space_before \o trimmed \o space_after
        ELSE trimmed

RECURSIVE ProcessLines(_, _)
\* filter(None, (line_processing(l, preserve_space) for l in lines)): None
\* and the empty str are left out
ProcessLines(lines, preserve_space) ==
    IF lines = <<>> THEN <<>>
    ELSE LET l == line_processing(Head(lines), preserve_space, FALSE)
         IN  (IF Truthy(l) THEN <<l>> ELSE <<>>)
             \o ProcessLines(Tail(lines), preserve_space)

\* sanitize of a str
sanitize(text, preserve_space, trailing_space) ==
    IF trailing_space THEN line_processing(text, preserve_space, TRUE)
    ELSE SelectSeq(JoinWith(<<"\n">>,
                            ProcessLines(SplitLines(text, <<>>, FALSE), preserve_space)),
                   LAMBDA c : c # NLSYM)

\* sanitize(text, preserve_space, trailing_space)
SZ_First ==
    /\ pc = "sz_first"
    /\ locals' = [once |-> sanitize(options.text, options.preserve_space,
                                    options.trailing_space),
                  twice |-> None]
    /\ pc' = "sz_second"
    /\ UNCHANGED <<tree, tree0, options, backup, ret>>

\* sanitize of the result, when the result is a str
SZ_Second ==
    /\ pc = "sz_second"
    /\ locals.once # None
    /\ locals' = [locals EXCEPT !.twice = sanitize(locals.once, options.preserve_space,
                                                   options.trailing_space)]
    /\ pc' = "sz_done"
    /\ UNCHANGED <<tree, tree0, options, backup, ret>>

(* The calls that are modelled: the texts of up to MaxPieces pieces, each a *)
(* character or a run of characters that is or could become an entity.      *)

MaxPieces == 3

SanitizePieces ==
    {<<"a">>, <<"p">>, <<" ">>, <<"\n">>, <<"\r">>, <<CTRL>>, <<NLSYM>>,
     <<"&", "#", "1", "3", ";">>, <<"&", "#", "1", "0", ";">>,
     <<"&", "n", "b", "s", "p", ";">>, <<"&", "#", "1">>, <<"3", ";">>}

InitSan ==
    /\ pc = "sz_first"
    /\ \E n \in 0..MaxPieces : \E ps \in [1..n -> SanitizePieces] :
          \E preserve_space \in BOOLEAN, trailing_space \in BOOLEAN :
             options = [text |-> Flatten(ps), preserve_space |-> preserve_space,
                        trailing_space |-> trailing_space]
    /\ tree = NoTree
    /\ tree0 = NoTree
    /\ backup = NoTree
    /\ locals = NoLocals
    /\ ret = NoTree

NextSan == SZ_First \/ SZ_Second

SpecSan == InitSan /\ [][NextSan]_vars

-----------------------------------------------------------------------------
(* Claims about sanitize.                                                   *)

\* C10: for every text and every setting of preserve_space and
\* trailing_space, sanitize of the result of sanitize, when that is not None,
\* is that result.
C10_SanitizeIdempotent ==
    pc = "sz_done" => locals.twice = locals.once

-----------------------------------------------------------------------------
(* utils.py: repair_faulty_html.                                            *)

\* s.endswith(suffix)
EndsWith(s, suffix) ==
    Len(s) >= Len(suffix) /\ SubSeq(s, Len(s) - Len(suffix) + 1, Len(s)) = suffix

\* the place of the first "\n" of s, Len(s) + 1 when there is none
FirstNewline(s) ==
    CHOOSE p \in 1..(Len(s) + 1) :
        /\ p = Len(s) + 1 \/ s[p] = "\n"
        /\ \A k \in 1..(p - 1) : s[k] # "\n"

\* the length of what "^< ?! ?DOCTYPE" matches at the start of the line with
\* re.I, 0 when it does not match
DoctypeOpening(line) ==
    LET a == IF Len(line) >= 2 /\ line[2] = " " THEN 1 ELSE 0
        b == IF Len(line) >= 3 + a /\ line[3 + a] = " " THEN 1 ELSE 0
        n == 9 + a + b
    IN  IF /\ Len(line) >= n
           /\ line[1] = "<"
           /\ line[2 + a] = "!"
           /\ Lower(SubSeq(line, 3 + a + b, n)) = <<"d", "o", "c", "t", "y", "p", "e">>
        THEN n ELSE 0

\* the places of a "/" that ends the match of DOCTYPE_TAG: "/ ?>" after at
\* least one character
DoctypeClosings(line, n) ==
    {e \in (n + 2)..Len(line) :
        /\ line[e] = "/"
        /\ \/ e + 1 <= Len(line) /\ line[e + 1] = ">"
           \/ e + 2 <= Len(line) /\ line[e + 1] = " " /\ line[e + 2] = ">"}

\* line 61 and 214: DOCTYPE_TAG.sub("", firstline, count=1)
DOCTYPE_TAG(firstline) ==
    LET n == DoctypeOpening(firstline)
        closings == DoctypeClosings(firstline, n)
        e == CHOOSE x \in closings : \A y \in closings : x <= y
        last == IF firstline[e + 1] = ">" THEN e + 1 ELSE e + 2
    IN  IF n = 0 \/ closings = {} THEN firstline
        ELSE SubSeq(firstline, last + 1, Len(firstline))

\* the first place from q on that holds no whitespace, Len(s) + 1 when
\* only whitespace follows
AfterSpaces(s, q) ==
    CHOOSE r \in q..(Len(s) + 1) :
        /\ r = Len(s) + 1 \/ ~IsSpace(s[r])
        /\ \A k \in q..(r - 1) : IsSpace(s[k])

\* the places q where group 1 of FAULTY_HTML can end when it begins at p:
\* "<html", characters other than "\n" up to q - 1, whitespace, then "/>"
GroupEnds(s, p) ==
    {q \in (p + 5)..(Len(s) + 1) :
        /\ \A k \in (p + 5)..(q - 1) : s[k] # "\n"
        /\ LET r == AfterSpaces(s, q)
           IN  r + 1 <= Len(s) /\ s[r] = "/" /\ s[r + 1] = ">"}

\* the places where a match of FAULTY_HTML begins
FaultyStarts(s) ==
    {p \in 1..(Len(s) - 4) :
        /\ Lower(SubSeq(s, p, p + 4)) = <<"<", "h", "t", "m", "l">>
        /\ GroupEnds(s, p) # {}}

\* line 62 and 218: FAULTY_HTML.sub(r"\1>", htmlstring, count=1)
FAULTY_HTML(htmlstring) ==
    LET starts == FaultyStarts(htmlstring)
        p == CHOOSE x \in starts : \A y \in starts : x <= y
        ends == GroupEnds(htmlstring, p)
        q == CHOOSE x \in ends : \A y \in ends : x <= y
        r == AfterSpaces(htmlstring, q)
    IN  IF starts = {} THEN htmlstring
        ELSE SubSeq(htmlstring, 1, q - 1) \o <<">">>
             \o SubSeq(htmlstring, r + 2, Len(htmlstring))

\* line 217
IsFaultyLine(line) ==
    Contains(line, <<"<", "h", "t", "m", "l">>) /\ EndsWith(line, <<"/", ">">>)

\* lines 212-214
RepairDoctype(htmlstring, beginning) ==
    IF Contains(beginning, <<"d", "o", "c", "t", "y", "p", "e">>)
    THEN LET p == FirstNewline(htmlstring)
         IN  DOCTYPE_TAG(SubSeq(htmlstring, 1, p - 1)) \o <<"\n">>
             \o SubSeq(htmlstring, p + 1, Len(htmlstring))
    ELSE htmlstring

RECURSIVE RepairLines(_, _, _)
\* lines 216-221: the loop, at the line of index i
RepairLines(htmlstring, lines, i) ==
    IF i >= Len(lines) THEN htmlstring
    ELSE IF IsFaultyLine(lines[i + 1]) THEN FAULTY_HTML(htmlstring)
    ELSE IF i > 2 THEN htmlstring
    ELSE RepairLines(htmlstring, lines, i + 1)

repair_faulty_html(htmlstring, beginning) ==
    LET repaired == RepairDoctype(htmlstring, beginning)
    IN  RepairLines(repaired, SplitLines(repaired, <<>>, FALSE), 0)

\* lines 212-214
RF_Doctype ==
    /\ pc = "rf_begin"
    /\ locals' = [locals EXCEPT
                    !.htmlstring = RepairDoctype(options.htmlstring, options.beginning)]
    /\ pc' = "rf_lines"
    /\ UNCHANGED <<tree, tree0, options, backup, ret>>

\* lines 216-222
RF_Lines ==
    /\ pc = "rf_lines"
    /\ locals' = [locals EXCEPT
                    !.returned = RepairLines(locals.htmlstring,
                                             SplitLines(locals.htmlstring, <<>>, FALSE), 0)]
    /\ pc' = "rf_done"
    /\ UNCHANGED <<tree, tree0, options, backup, ret>>

(* The calls that are modelled, as load_html makes them: nothing or a       *)
(* doctype line, 0..MaxLead lines "x", a line with the html tag, then       *)
(* nothing or one more line with a self-closing html tag; the lines end     *)
(* with "\n" or with "\r\n".                                                *)

MaxLead == 4   \* lines "x" before the html tag

DoctypeLines ==
    {<<"<", "!", "D", "O", "C", "T", "Y", "P", "E", " ", "h", "t", "m", "l", ">">>,
     <<"<", "!", "d", "o", "c", "t", "y", "p", "e", " ", "h", "t", "m", "l", "/", ">">>}

HtmlLines ==
    {<<"<", "h", "t", "m", "l", " ", "/", ">">>,
     <<"<", "h", "t", "m", "l", "/", ">">>,
     <<"<", "H", "T", "M", "L", " ", "/", ">">>,
     <<"<", "h", "t", "m", "l", ">">>}

RECURSIVE JoinLines(_, _)
\* the lines, each followed by sep
JoinLines(lines, sep) ==
    IF lines = <<>> THEN <<>> ELSE Head(lines) \o sep \o JoinLines(Tail(lines), sep)

InitRepair ==
    /\ pc = "rf_begin"
    /\ \E first \in {<<>>} \cup {<<d>> : d \in DoctypeLines},
          lead \in 0..MaxLead, html \in HtmlLines,
          more \in {<<>>, <<<<"<", "h", "t", "m", "l", " ", "/", ">">>>>},
          sep \in {<<"\n">>, <<"\r", "\n">>} :
         LET htmlstring == JoinLines(first \o Rep(<<"x">>, lead) \o <<html>> \o more, sep)
         IN  options = [htmlstring |-> htmlstring,
                        beginning |-> Lower(Take(htmlstring, Fifty))]
    /\ tree = NoTree
    /\ tree0 = NoTree
    /\ backup = NoTree
    /\ locals = [htmlstring |-> <<>>, returned |-> <<>>]
    /\ ret = NoTree

NextRepair == RF_Doctype \/ RF_Lines

SpecRepair == InitRepair /\ [][NextRepair]_vars

-----------------------------------------------------------------------------
(* Claims about repair_faulty_html.                                         *)

\* the lines that the loop of repair_faulty_html goes through
LinesOfRepair == SplitLines(locals.htmlstring, <<>>, FALSE)

\* C15 as stated: the self-closing html tag is rewritten only when a line
\* that contains "<html" and ends with "/>" is among the first 3 lines; when
\* the first such line is the 4th or a later one, the string is returned
\* without the rewrite.
C15_RewriteWithinThreeLines ==
    pc = "rf_done" =>
        (locals.returned # locals.htmlstring) <=>
            (\E k \in 1..3 : k <= Len(LinesOfRepair) /\ IsFaultyLine(LinesOfRepair[k]))

-----------------------------------------------------------------------------
(* htmlprocessing.py: handle_textnode and process_node; utils.py:           *)
(* textfilter and text_chars_test.                                          *)

\* the characters \w matches, among those of the model
IsWordChar(c) ==
    \/ \E k \in 1..Len(ASCII_LOWERCASE) : ASCII_LOWERCASE[k] = c \/ ASCII_UPPERCASE[k] = c
    \/ IsDigit(c) \/ c = "_"

RECURSIVE DropNonWord(_)
\* what is left after the \W* at the start of RE_FILTER
DropNonWord(s) ==
    IF s = <<>> \/ IsWordChar(Head(s)) THEN s ELSE DropNonWord(Tail(s))

\* lines 84-86: the words of RE_FILTER that stand alone, in lower case
\* (E-?Mail and Mehr zum Thema:? written out)
FILTER_WORDS ==
    {<<"d", "r", "u", "c", "k", "e", "n">>,
     <<"e", "-", "m", "a", "i", "l">>,
     <<"e", "m", "a", "i", "l">>,
     <<"f", "a", "c", "e", "b", "o", "o", "k">>,
     <<"f", "l", "i", "p", "b", "o", "a", "r", "d">>,
     <<"g", "o", "o", "g", "l", "e">>,
     <<"i", "n", "s", "t", "a", "g", "r", "a", "m">>,
     <<"l", "i", "n", "k", "e", "d", "i", "n">>,
     <<"m", "a", "i", "l">>,
     <<"p", "d", "f">>,
     <<"p", "i", "n", "t", "e", "r", "e", "s", "t">>,
     <<"p", "o", "c", "k", "e", "t">>,
     <<"p", "r", "i", "n", "t">>,
     <<"q", "q">>,
     <<"r", "e", "d", "d", "i", "t">>,
     <<"t", "w", "i", "t", "t", "e", "r">>,
     <<"w", "e", "c", "h", "a", "t">>,
     <<"w", "e", "i", "b", "o">>,
     <<"w", "h", "a", "t", "s", "a", "p", "p">>,
     <<"x", "i", "n", "g">>,
     <<"m", "e", "h", "r", " ", "z", "u", "m", " ", "t", "h", "e", "m", "a">>,
     <<"m", "e", "h", "r", " ", "z", "u", "m", " ", "t", "h", "e", "m", "a", ":">>}

\* lines 84-87, RE_FILTER.match(line) for a line without line end: after the
\* non-word characters comes one of the words, or "More on this" and at most
\* 8 more characters, up to the end, in any case of the letters
RE_FILTER(line) ==
    LET rest == Lower(DropNonWord(line))
        more == <<"m", "o", "r", "e", " ", "o", "n", " ", "t", "h", "i", "s">>
    IN  \/ rest \in FILTER_WORDS
        \/ /\ Len(rest) >= Len(more) /\ Len(rest) <= Len(more) + 8
           /\ SubSeq(rest, 1, Len(more)) = more

\* text_chars_test: bool(string) and not string.isspace()
text_chars_test(string) ==
    /\ Truthy(string)
    /\ ~(\A i \in 1..Len(string) : IsSpace(string[i]))

\* textfilter
textfilter(T, element) ==
    LET testtext == IF T.text[element] = None THEN T.tail[element] ELSE T.text[element]
    IN  \/ ~text_chars_test(testtext)
        \/ \E l \in SeqToSet(SplitLines(testtext, <<>>, FALSE)) : RE_FILTER(l)

\* handle_textnode; dup is what duplicate_test answers when it is asked. The
\* result is the tree and what is returned: the element or None
handle_textnode(T, elem, opt, comments_fix, preserve_spaces, dup) ==
    LET empty == T.kids[elem] = <<>> /\ ~Truthy(T.text[elem]) /\ ~Truthy(T.tail[elem])
        \* lines 264-270
        Tlb == IF ~preserve_spaces THEN [T EXCEPT !.tail[elem] = trim(@)] ELSE T
        \* lines 272-278
        T1 == IF ~Truthy(T.text[elem]) /\ T.kids[elem] = <<>>
              THEN [T EXCEPT !.text[elem] = T.tail[elem], !.tail[elem] = <<>>,
                             !.tag[elem] = IF comments_fix /\ @ = "lb" THEN "p" ELSE @]
              ELSE T
        \* lines 281-284
        T2 == IF ~preserve_spaces
              THEN [T1 EXCEPT !.text[elem] = trim(@),
                              !.tail[elem] = IF Truthy(@) THEN trim(@) ELSE @]
              ELSE T1
    IN  IF T.tag[elem] = "done" \/ empty THEN [tree |-> T, returned |-> "None"]
        ELSE IF ~comments_fix /\ T.tag[elem] = "lb" THEN [tree |-> Tlb, returned |-> "elem"]
        ELSE IF (~Truthy(T2.text[elem]) /\ textfilter(T2, elem)) \/ (opt.dedup /\ dup)
             THEN [tree |-> T2, returned |-> "None"]
        ELSE [tree |-> T2, returned |-> "elem"]

\* process_node
process_node(T, elem, opt, dup) ==
    LET empty == T.kids[elem] = <<>> /\ ~Truthy(T.text[elem]) /\ ~Truthy(T.tail[elem])
        \* line 300
        T1 == [T EXCEPT !.text[elem] = trim(@), !.tail[elem] = trim(@)]
        \* lines 303-304
        T2 == IF T1.tag[elem] # "lb" /\ ~Truthy(T1.text[elem]) /\ Truthy(T1.tail[elem])
              THEN [T1 EXCEPT !.text[elem] = T1.tail[elem], !.tail[elem] = None]
              ELSE T1
    IN  IF T.tag[elem] = "done" \/ empty THEN [tree |-> T, returned |-> "None"]
        ELSE IF (Truthy(T2.text[elem]) \/ Truthy(T2.tail[elem]))
                /\ (textfilter(T2, elem) \/ (opt.dedup /\ dup))
             THEN [tree |-> T2, returned |-> "None"]
        ELSE [tree |-> T2, returned |-> "elem"]

\* handle_textnode(elem, options, comments_fix, preserve_spaces)
HT_Call ==
    /\ pc = "np_call"
    /\ options.mode = "handle_textnode"
    /\ \E dup \in BOOLEAN :
         LET r == handle_textnode(tree, locals.elem, options, options.comments_fix,
                                  options.preserve_spaces, dup)
         IN  /\ tree' = r.tree
             /\ locals' = [locals EXCEPT !.returned = r.returned]
    /\ pc' = "np_done"
    /\ UNCHANGED <<tree0, options, backup, ret>>

\* process_node(elem, options)
PN_Call ==
    /\ pc = "np_call"
    /\ options.mode = "process_node"
    /\ \E dup \in BOOLEAN :
         LET r == process_node(tree, locals.elem, options, dup)
         IN  /\ tree' = r.tree
             /\ locals' = [locals EXCEPT !.returned = r.returned]
    /\ pc' = "np_done"
    /\ UNCHANGED <<tree0, options, backup, ret>>

(* The calls that are modelled: the node is the first child of a body and   *)
(* has up to MaxNodeChildren children; its text and its tail are None, the  *)
(* empty str, blank, a letter, a letter after a blank, or a filtered word.  *)

MaxNodeChildren == 1

NodeTags == {"p", "lb", "done"}

NodeTexts == {None, <<>>, <<" ">>, <<"x">>, <<" ", "x">>, <<"Q", "Q">>}

InitNode ==
    /\ pc = "np_call"
    /\ \E k \in 0..MaxNodeChildren, t \in NodeTags, tx \in NodeTexts, tl \in NodeTexts :
         tree = MkTree(<<0, 1>> \o Rep(2, k), <<"body", t>> \o Rep("hi", k),
                       <<None, tx>> \o Rep(<<"x">>, k), <<None, tl>> \o Rep(None, k),
                       Rep(NoAttrib, k + 2))
    /\ options \in [mode : {"handle_textnode", "process_node"}, dedup : BOOLEAN,
                    comments_fix : BOOLEAN, preserve_spaces : BOOLEAN]
    /\ (options.mode = "process_node" => options.comments_fix /\ ~options.preserve_spaces)
    /\ tree0 = tree
    /\ backup = NoTree
    /\ locals = [elem |-> 2, returned |-> ""]
    /\ ret = NoTree

NextNode == HT_Call \/ PN_Call

SpecNode == InitNode /\ [][NextNode]_vars

-----------------------------------------------------------------------------
(* Claims about handle_textnode and process_node.                           *)

\* C11: in both modes, a node with at least one child and no text of its own
\* is returned, with its tag unchanged, its text still empty and its tail
\* text not moved into its text.
C11_StructuralNodeLeftAsIs ==
    (/\ pc = "np_done"
     /\ tree0.kids[locals.elem] # <<>> /\ ~Truthy(tree0.text[locals.elem])) =>
        /\ locals.returned = "elem"
        /\ tree.tag[locals.elem] = tree0.tag[locals.elem]
        /\ ~Truthy(tree.text[locals.elem])

-----------------------------------------------------------------------------
(* htmlprocessing.py: link_density_test as a function of its arguments.     *)

\* link_density_test(element, text, favor_precision)
LT_Call ==
    /\ pc = "lt_call"
    /\ locals' = [locals EXCEPT !.test = link_density_test(tree, locals.elem, options.text,
                                                           options.favor_precision)]
    /\ pc' = "lt_done"
    /\ UNCHANGED <<tree, tree0, options, backup, ret>>

(* The calls that are modelled: the element is a p or a div, the first      *)
(* child of a div, with or without a next sibling; its children are up to   *)
(* MaxRefs ref elements whose texts have the lengths around the limits for  *)
(* short links; the text argument has a length around the length limits.    *)

MaxRefs == 5

LinkLengths == {0, 9, 10, 49, 50}

TextLengths == {0, 1, 29, 30, 59, 60, 99, 100, 199, 200, 299, 300}

\* the text of a ref: None for no text
RefText(n) == IF n = 0 THEN None ELSE Rep("x", n)

InitDensity ==
    /\ pc = "lt_call"
    /\ \E n \in 0..MaxRefs, t \in {"p", "div"}, sib \in 0..1 :
         \E ls \in [1..n -> LinkLengths] :
            /\ \A i \in 1..(n - 1) : ls[i] <= ls[i + 1]
            /\ tree = MkTree(<<0, 1>> \o Rep(2, n) \o Rep(1, sib),
                             <<"div", t>> \o Rep("ref", n) \o Rep("p", sib),
                             <<None, None>> \o [i \in 1..n |-> RefText(ls[i])] \o Rep(None, sib),
                             Rep(None, n + 2 + sib), Rep(NoAttrib, n + 2 + sib))
    /\ \E len \in TextLengths, favor_precision \in BOOLEAN :
         options = [text |-> Rep("x", len), favor_precision |-> favor_precision]
    /\ tree0 = tree
    /\ backup = NoTree
    /\ locals = [elem |-> 2, test |-> [result |-> FALSE, mylist |-> <<>>]]
    /\ ret = NoTree

NextDensity == LT_Call

SpecDensity == InitDensity /\ [][NextDensity]_vars

-----------------------------------------------------------------------------
(* Claims about link_density_test.                                          *)

\* the ref elements below the element
RefsOfElem == {e \in Descendants(tree, locals.elem) : tree.tag[e] = "ref"}

\* the lengths of the links that are counted: those with text
CountedLinks == {e \in RefsOfElem : Len(trim(text_content(tree, e))) > 0}

RECURSIVE SumOfLinks(_)
SumOfLinks(S) ==
    IF S = {} THEN 0
    ELSE LET e == CHOOSE x \in S : TRUE
         IN  Len(trim(text_content(tree, e))) + SumOfLinks(S \ {e})

\* the limit for the tag and the position, as the claim gives it
ClaimedLimit ==
    IF tree.tag[locals.elem] = "p"
    THEN (IF options.favor_precision THEN 200
          ELSE IF getnext(tree, locals.elem) # NoElem THEN 30 ELSE 60)
    ELSE (IF getnext(tree, locals.elem) # NoElem THEN 100 ELSE 300)

\* the two conditions on the links, as the claim gives them
ClaimedDense ==
    LET short == {e \in CountedLinks :
                     Len(trim(text_content(tree, e))) <
                         (IF options.favor_precision THEN 50 ELSE 10)}
    IN  \/ 10 * SumOfLinks(CountedLinks) > 8 * Len(options.text)
        \/ /\ Cardinality(CountedLinks) > 1
           /\ 10 * Cardinality(short) > 8 * Cardinality(CountedLinks)

\* C12 as stated: the element is flagged exactly when its text is under the
\* limit and one of the two conditions on the links holds; an element with a
\* link count of zero is never flagged.
C12_FlaggedWhenDense ==
    pc = "lt_done" =>
        /\ locals.test.result <=> (Len(options.text) < ClaimedLimit /\ ClaimedDense)
        /\ CountedLinks = {} => ~locals.test.result

\* C12 as amended: the element is flagged exactly when it has a ref below
\* it, its text is under the limit, and either no link has text, or one of
\* the two conditions on the links holds; an element without a ref below it
\* is never flagged.
C12_FlaggedWhenDenseOrNoLinkText ==
    pc = "lt_done" =>
        /\ locals.test.result <=>
              /\ RefsOfElem # {}
              /\ Len(options.text) < ClaimedLimit
              /\ (CountedLinks = {} \/ ClaimedDense)
        /\ RefsOfElem = {} => ~locals.test.result

\* C12, the case the amendment adds: a text under the limit, links below the
\* element, none of them with text, and the element is flagged
C12_Witness ==
    /\ pc = "lt_done"
    /\ RefsOfElem # {} /\ CountedLinks = {}
    /\ 0 < Len(options.text) /\ Len(options.text) < ClaimedLimit
    /\ locals.test.result

====
